---- MODULE Spec2Model ----
(***************************************************************************)
(* State-machine model of the keimai.app graph editor: the App component   *)
(* (src/App.tsx, first component in the file) and the GraphCanvas          *)
(* component (src/components/GraphCanvas.tsx).                             *)
(*                                                                         *)
(* One action is one browser event: the handler that runs, the batched     *)
(* React state update it causes, the re-render, and the effects of that    *)
(* render (GraphCanvas' data-sync effect and main simulation effect).      *)
(* Handlers read the state their closure captured: for handlers created    *)
(* in App's or GraphCanvas' body that is the state of the last render,     *)
(* for handlers bound inside the main simulation effect (node click,       *)
(* drag) it is the state of the render in which that effect last ran,      *)
(* and for the continuation of an awaited call it is the state of the      *)
(* render in which the call was started.                                   *)
(***************************************************************************)
EXTENDS Integers, Sequences, FiniteSets, TLC

VARIABLES
  graphData,       \* App: const [graphData, setGraphData]
  history,         \* App: const [history, setHistory]
  historyIndex,    \* App: const [historyIndex, setHistoryIndex] (0-based)
  selectedNodes,   \* App: const [selectedNodes, setSelectedNodes]
  selectedLinks,   \* App: const [selectedLinks, setSelectedLinks]
  clipboardNodes,  \* App: const [clipboardNodes, setClipboardNodes]
  isAILoading,     \* App: const [isAILoading, setIsAILoading]
  isAIModalOpen,   \* App: const [isAIModalOpen, setIsAIModalOpen]
  grouping,        \* App: simulationConfig.grouping
  nodesRef,        \* GraphCanvas: nodesRef.current (the layout arena)
  linksRef,        \* GraphCanvas: linksRef.current
  canvasEnv,       \* what the handlers bound in the main simulation effect captured
  genPending,      \* generation requests awaiting the service, each with its closure
  importPending,   \* file loads awaiting FileReader.onload, each with its closure
  now,             \* Date.now() when it was last read, below 0 before that
  crashed,         \* a render threw: the component tree is unmounted
  gesture,         \* the pointer gesture in progress on a node of the arena
  used,            \* how many events have been explored
  limits,          \* the bounds of the exploration
  op               \* the event handled last and the notification it raised

vars == << graphData, history, historyIndex, selectedNodes, selectedLinks,
           clipboardNodes, isAILoading, isAIModalOpen, grouping, nodesRef,
           linksRef, canvasEnv, genPending, importPending, now, crashed, gesture,
           used, limits, op >>

----------------------------------------------------------------------------
(* Bounds of the model *)

\* events explored from the initial state, under Spec and SpecStructural
MaxEvents == 4
\* events explored from the initial state, under SpecClipboard
MaxClipboardEvents == 5
\* largest value of the clock
MaxClock == 1

----------------------------------------------------------------------------
(* Values *)

\* an optional number that is undefined (also stands for null)
Undef == 0 - 1000

\* history capacity: if (newHistory.length > 50) newHistory.shift()
HistoryCapacity == 50

\* const offset = 40 in handlePaste
PasteOffset == 40

MkNode(id, label, type, props) ==
  [ id |-> id, label |-> label, type |-> type, properties |-> props,
    color |-> "", x |-> Undef, y |-> Undef, vx |-> Undef, vy |-> Undef,
    fx |-> Undef, fy |-> Undef ]

MkLink(id, source, target, label) ==
  [ id |-> id, source |-> source, target |-> target, label |-> label,
    type |-> "", resolved |-> FALSE ]

INITIAL_DATA ==
  [ nodes |-> << MkNode("1", "User", "node", <<"username">>),
                 MkNode("2", "Post", "document", <<"content">>),
                 MkNode("3", "Comment", "document", <<>>) >>,
    links |-> << MkLink("l1", "1", "2", "AUTHORED"),
                 MkLink("l2", "1", "3", "WROTE"),
                 MkLink("l3", "3", "2", "ON") >> ]

HasNodes(g) == "nodes" \in DOMAIN g
HasLinks(g) == "links" \in DOMAIN g

\* const getNodeId = (node) => typeof node === 'object' ? node.id : node
\* (an endpoint is stored here as the id with the link's flag "resolved"
\* telling whether the store holds the id or the simulation's node object)
getNodeId(endpoint) == endpoint

----------------------------------------------------------------------------
(* Sequence helpers (Array.prototype.map / filter / find) *)

Range(s) == { s[i] : i \in 1..Len(s) }

Ids(s) == { s[i].id : i \in 1..Len(s) }

RECURSIVE FilterOut(_, _)
\* s.filter(e => !idSet.has(e.id))
FilterOut(s, idSet) ==
  IF s = << >> THEN << >>
  ELSE IF Head(s).id \in idSet THEN FilterOut(Tail(s), idSet)
       ELSE << Head(s) >> \o FilterOut(Tail(s), idSet)

\* s.find(e => e.id === id) : index of the first match, 0 if none
FindIdx(s, id) ==
  IF \E i \in 1..Len(s) : s[i].id = id
  THEN CHOOSE i \in 1..Len(s) : s[i].id = id /\ \A j \in 1..(i-1) : s[j].id # id
  ELSE 0

\* new Map(s.map(e => [e.id, e])).get(id) : index of the last match, 0 if none
MapGetIdx(s, id) ==
  IF \E i \in 1..Len(s) : s[i].id = id
  THEN CHOOSE i \in 1..Len(s) : s[i].id = id /\ \A j \in (i+1)..Len(s) : s[j].id # id
  ELSE 0

----------------------------------------------------------------------------
(* History *)

\* recordHistory without the capacity check
recordHistory_NoEvict(env, newData) ==
  LET newHistory == SubSeq(env.history, 1, env.historyIndex + 1) \o << newData >>
  IN [ history |-> newHistory, historyIndex |-> Len(newHistory) - 1, graphData |-> newData ]

\* recordHistory that takes the new cursor before it drops the oldest entry
recordHistory_CursorBeforeShift(env, newData) ==
  LET newHistory == SubSeq(env.history, 1, env.historyIndex + 1) \o << newData >>
      shifted == IF Len(newHistory) > HistoryCapacity THEN Tail(newHistory) ELSE newHistory
  IN [ history |-> shifted, historyIndex |-> Len(newHistory) - 1, graphData |-> newData ]

\* recordHistory(newData), run with the history and historyIndex of its closure
recordHistory(env, newData) ==
  LET newHistory == SubSeq(env.history, 1, env.historyIndex + 1) \o << newData >>
      shifted == IF Len(newHistory) > HistoryCapacity THEN Tail(newHistory) ELSE newHistory
  IN [ history |-> shifted, historyIndex |-> Len(shifted) - 1, graphData |-> newData ]

----------------------------------------------------------------------------
(* The layout arena (GraphCanvas) *)

\* d3.forceSimulation(nodes) places a node that has no position on a spiral
\* around the origin, by its index (0-based)
DefaultX(i) == CASE i = 0 -> 7 [] i = 1 -> 0 - 9 [] i = 2 -> 1 [] i = 3 -> 11
                 [] i = 4 -> 0 - 21 [] OTHER -> 20
DefaultY(i) == CASE i = 0 -> 0 [] i = 1 -> 8 [] i = 2 -> 0 - 16 [] i = 3 -> 15
                 [] i = 4 -> 0 - 4 [] OTHER -> 0 - 13

\* d3.forceSimulation(nodes): initializeNodes
initializeNode(n, i) ==
  LET pinned == [ n EXCEPT !.x = IF n.fx # Undef THEN n.fx ELSE n.x,
                           !.y = IF n.fy # Undef THEN n.fy ELSE n.y ]
      placed == IF pinned.x = Undef \/ pinned.y = Undef
                THEN [ pinned EXCEPT !.x = DefaultX(i), !.y = DefaultY(i) ]
                ELSE pinned
  IN IF placed.vx = Undef \/ placed.vy = Undef
     THEN [ placed EXCEPT !.vx = 0, !.vy = 0 ]
     ELSE placed

\* the data-sync effect: for every node of the data, the arena entry found
\* under its id takes the node's label, type, properties and color
SyncArena(arena, g) ==
  [ k \in 1..Len(arena) |->
      LET id == arena[k].id
          d  == MapGetIdx(g.nodes, id)
      IN IF MapGetIdx(arena, id) = k /\ d # 0
         THEN [ arena[k] EXCEPT !.label = g.nodes[d].label,
                                !.type = g.nodes[d].type,
                                !.properties = g.nodes[d].properties,
                                !.color = g.nodes[d].color ]
         ELSE arena[k] ]

\* the main simulation effect: nodesRef.current = nodes.map(...), every id
\* found in the previous arena keeps x, y, vx, vy, fx, fy
RebuildNodes(arena, g) ==
  [ i \in 1..Len(g.nodes) |->
      LET n == g.nodes[i]
          k == MapGetIdx(arena, n.id)
      IN initializeNode(
           IF k # 0
           THEN [ n EXCEPT !.x = arena[k].x, !.y = arena[k].y,
                           !.vx = arena[k].vx, !.vy = arena[k].vy,
                           !.fx = arena[k].fx, !.fy = arena[k].fy ]
           ELSE n, i - 1) ]

\* linksRef.current = links.map(l => ({...l})), then d3.forceLink replaces
\* the endpoint ids by the arena's node objects
RebuildLinks(g) ==
  [ i \in 1..Len(g.links) |-> [ g.links[i] EXCEPT !.resolved = TRUE ] ]

----------------------------------------------------------------------------
(* Selection and clipboard entries.  A selected node is an object: either  *)
(* an entry of the current arena (ref = its index; its fields are read     *)
(* through the arena, which the simulation and the sync effect mutate in   *)
(* place), or an object of its own (ref = 0).                              *)

StubNode == MkNode("", "", "", << >>)

LiveEntry(i) == [ ref |-> i, node |-> StubNode ]
ValueEntry(n) == [ ref |-> 0, node |-> n ]

Deref(e, arena) == IF e.ref > 0 THEN arena[e.ref] ELSE e.node

DerefSeq(s, arena) == [ i \in 1..Len(s) |-> Deref(s[i], arena) ]

\* objects of an arena that a rebuild replaces stay as they were last
Freeze(s, arena) == [ i \in 1..Len(s) |-> ValueEntry(Deref(s[i], arena)) ]

----------------------------------------------------------------------------
(* Undo and redo (toolbar buttons, Ctrl+Z, Ctrl+R) *)

\* handleUndo that sets the graph and forgets setHistoryIndex
handleUndo_KeepCursor(s) ==
  IF s.historyIndex > 0
  THEN [ s EXCEPT !.graphData = s.history[s.historyIndex],
                  !.selectedNodes = << >>,
                  !.selectedLinks = << >> ]
  ELSE s

\* handleUndo that clears the selection outside its guard
handleUndo_ClearsAlways(s) ==
  IF s.historyIndex > 0
  THEN [ s EXCEPT !.historyIndex = s.historyIndex - 1,
                  !.graphData = s.history[s.historyIndex],
                  !.selectedNodes = << >>,
                  !.selectedLinks = << >> ]
  ELSE [ s EXCEPT !.selectedNodes = << >>, !.selectedLinks = << >> ]

handleUndo(s) ==
  IF s.historyIndex > 0
  THEN [ s EXCEPT !.historyIndex = s.historyIndex - 1,
                  !.graphData = s.history[s.historyIndex],
                  !.selectedNodes = << >>,
                  !.selectedLinks = << >> ]
  ELSE s

handleRedo(s) ==
  IF s.historyIndex < Len(s.history) - 1
  THEN [ s EXCEPT !.historyIndex = s.historyIndex + 1,
                  !.graphData = s.history[s.historyIndex + 2],
                  !.selectedNodes = << >>,
                  !.selectedLinks = << >> ]
  ELSE s

----------------------------------------------------------------------------
(* Selection (handleNodeSelect, handleLinkSelect) *)

SelIds(sel) == { Deref(sel[i], nodesRef).id : i \in 1..Len(sel) }

RECURSIVE FilterSel(_, _)
\* prev.filter(n => n.id !== node.id)
FilterSel(sel, id) ==
  IF sel = << >> THEN << >>
  ELSE IF Deref(Head(sel), nodesRef).id = id THEN FilterSel(Tail(sel), id)
       ELSE << Head(sel) >> \o FilterSel(Tail(sel), id)

\* handleNodeSelect(null, isMulti) that clears whatever isMulti is
handleNodeSelectNull_AlwaysClears(s, isMulti) ==
  [ s EXCEPT !.selectedNodes = << >>, !.selectedLinks = << >> ]

\* handleNodeSelect(null, isMulti)
handleNodeSelectNull(s, isMulti) ==
  IF ~isMulti THEN [ s EXCEPT !.selectedNodes = << >>, !.selectedLinks = << >> ]
  ELSE s

\* handleNodeSelect whose multi branch adds the node without looking for it
handleNodeSelect_AlwaysAdds(s, e, isMulti) ==
  IF isMulti
  THEN [ s EXCEPT !.selectedLinks = << >>,
                  !.selectedNodes = Append(s.selectedNodes, e) ]
  ELSE [ s EXCEPT !.selectedLinks = << >>, !.selectedNodes = << e >> ]

\* handleNodeSelect(node, isMulti) with a node
handleNodeSelect(s, e, isMulti) ==
  LET id == Deref(e, nodesRef).id IN
  IF isMulti
  THEN [ s EXCEPT !.selectedLinks = << >>,
                  !.selectedNodes =
                     IF id \in SelIds(s.selectedNodes)
                     THEN FilterSel(s.selectedNodes, id)
                     ELSE Append(s.selectedNodes, e) ]
  ELSE [ s EXCEPT !.selectedLinks = << >>, !.selectedNodes = << e >> ]

\* handleLinkSelect(null, isMulti)
handleLinkSelectNull(s, isMulti) ==
  IF ~isMulti THEN [ s EXCEPT !.selectedNodes = << >>, !.selectedLinks = << >> ]
  ELSE s

\* handleLinkSelect whose multi branch keeps the node selection
handleLinkSelect_KeepsNodes(s, l, isMulti) ==
  IF isMulti
  THEN [ s EXCEPT !.selectedLinks =
                     IF l.id \in Ids(s.selectedLinks)
                     THEN FilterOut(s.selectedLinks, { l.id })
                     ELSE Append(s.selectedLinks, l) ]
  ELSE [ s EXCEPT !.selectedNodes = << >>, !.selectedLinks = << l >> ]

\* handleLinkSelect(link, isMulti) with a link
handleLinkSelect(s, l, isMulti) ==
  IF isMulti
  THEN [ s EXCEPT !.selectedNodes = << >>,
                  !.selectedLinks =
                     IF l.id \in Ids(s.selectedLinks)
                     THEN FilterOut(s.selectedLinks, { l.id })
                     ELSE Append(s.selectedLinks, l) ]
  ELSE [ s EXCEPT !.selectedNodes = << >>, !.selectedLinks = << l >> ]

----------------------------------------------------------------------------
(* Structural and cosmetic handlers of App *)

\* the result of one recordHistory call, put into the state
Recorded(s, r) ==
  [ s EXCEPT !.history = r.history, !.historyIndex = r.historyIndex,
             !.graphData = r.graphData ]

\* handleUpdateNodes that goes through recordHistory
handleUpdateNodes_Recorded(s, updatedNodes) ==
  LET newData ==
        [ s.graphData EXCEPT !.nodes =
            [ i \in 1..Len(s.graphData.nodes) |->
                LET k == FindIdx(updatedNodes, s.graphData.nodes[i].id)
                IN IF k # 0 THEN updatedNodes[k] ELSE s.graphData.nodes[i] ] ]
  IN [ Recorded(s, recordHistory(s, newData))
         EXCEPT !.selectedNodes =
                  [ i \in 1..Len(updatedNodes) |-> ValueEntry(updatedNodes[i]) ] ]

\* handleUpdateNodes(updatedNodes)
handleUpdateNodes(s, updatedNodes) ==
  [ s EXCEPT
      !.graphData =
         [ s.graphData EXCEPT !.nodes =
             [ i \in 1..Len(s.graphData.nodes) |->
                 LET k == FindIdx(updatedNodes, s.graphData.nodes[i].id)
                 IN IF k # 0 THEN updatedNodes[k] ELSE s.graphData.nodes[i] ] ],
      !.selectedNodes = [ i \in 1..Len(updatedNodes) |-> ValueEntry(updatedNodes[i]) ] ]

\* handleUpdateLinks(updatedLinks)
handleUpdateLinks(s, updatedLinks) ==
  [ s EXCEPT
      !.graphData =
         [ s.graphData EXCEPT !.links =
             [ i \in 1..Len(s.graphData.links) |->
                 LET k == FindIdx(updatedLinks, s.graphData.links[i].id)
                 IN IF k # 0 THEN updatedLinks[k] ELSE s.graphData.links[i] ] ],
      !.selectedLinks = updatedLinks ]

\* handleDeleteNodes' newData without the filter on links
deleteNodesData_NoCascade(g, idSet) ==
  [ nodes |-> FilterOut(g.nodes, idSet), links |-> g.links ]

\* the newData of handleDeleteNodes(ids)
deleteNodesData(g, idSet) ==
  [ nodes |-> FilterOut(g.nodes, idSet),
    links |-> SelectSeq(g.links,
                LAMBDA l : getNodeId(l.source) \notin idSet
                           /\ getNodeId(l.target) \notin idSet) ]

\* handleDeleteNodes(ids), a closure over env
handleDeleteNodes(s, env, idSet) ==
  [ Recorded(s, recordHistory(env, deleteNodesData(env.graphData, idSet)))
      EXCEPT !.selectedNodes = << >> ]

\* handleDeleteLinks(ids), a closure over env
handleDeleteLinks(s, env, idSet) ==
  [ Recorded(s, recordHistory(env,
       [ env.graphData EXCEPT !.links = FilterOut(env.graphData.links, idSet) ]))
      EXCEPT !.selectedLinks = << >> ]

\* handleLinkCreate(sourceId, targetId), a closure over env; t is Date.now()
handleLinkCreate(s, env, sourceId, targetId, t) ==
  LET newLink == MkLink("link-" \o ToString(t), sourceId, targetId, "RELATED_TO")
  IN Recorded(s, recordHistory(env,
       [ env.graphData EXCEPT !.links = Append(env.graphData.links, newLink) ]))

\* handleNodesChange(newNodes), a closure over env
handleNodesChange(s, env, newNodes) ==
  IF Len(newNodes) # Len(env.graphData.nodes)
  THEN Recorded(s, recordHistory(env, [ env.graphData EXCEPT !.nodes = newNodes ]))
  ELSE s

----------------------------------------------------------------------------
(* Copy and paste *)

\* handleCopy
handleCopy(s) ==
  IF Len(s.selectedNodes) > 0 THEN [ s EXCEPT !.clipboardNodes = s.selectedNodes ] ELSE s

\* Math.random().toString(36).substr(2, n): the strings drawn during one
\* paste all differ (the i-th is a prefix followed by i); two pastes may
\* draw the same strings.  The prefixes explored:
RandomSuffixes == { "a", "b" }

\* step 1 of handlePaste: the new nodes, rnd being the prefix of the random
\* parts and t being Date.now()
pasteNodes(clip, rnd, t) ==
  [ i \in 1..Len(clip) |->
      [ clip[i] EXCEPT
          !.id = "node-" \o ToString(t) \o "-" \o rnd \o ToString(i),
          !.x = (IF clip[i].x = Undef THEN 0 ELSE clip[i].x) + PasteOffset,
          !.y = (IF clip[i].y = Undef THEN 0 ELSE clip[i].y) + PasteOffset,
          !.label = clip[i].label \o " (Copy)" ] ]

\* idMapping.get(id) || id
pasteMap(clip, newNodes, id) ==
  LET k == MapGetIdx(clip, id) IN IF k # 0 THEN newNodes[k].id ELSE id

\* the links of the graph with an endpoint in the clipboard
\* (sourceInClipboard || targetInClipboard)
touchedLinks(g, clip) ==
  SelectSeq(g.links, LAMBDA l : getNodeId(l.source) \in Ids(clip)
                                \/ getNodeId(l.target) \in Ids(clip))

\* step 2 of handlePaste: the new links
pasteLinks(g, clip, newNodes, rnd, t) ==
  LET touched == touchedLinks(g, clip)
  IN [ k \in 1..Len(touched) |->
         LET link == touched[k] IN
         [ link EXCEPT
             !.id = "link-" \o ToString(t) \o "-" \o rnd \o ToString(k),
             !.source = pasteMap(clip, newNodes, getNodeId(link.source)),
             !.target = pasteMap(clip, newNodes, getNodeId(link.target)),
             !.resolved = FALSE ] ]

\* handlePaste without setSelectedNodes(newNodes)
handlePaste_KeepsSelection(s, env, rnd, t) ==
  LET clip == DerefSeq(s.clipboardNodes, nodesRef) IN
  IF Len(clip) = 0 THEN s
  ELSE LET newNodes == pasteNodes(clip, rnd, t)
           newLinks == pasteLinks(env.graphData, clip, newNodes, rnd, t)
           newData == [ nodes |-> env.graphData.nodes \o newNodes,
                        links |-> env.graphData.links \o newLinks ]
       IN Recorded(s, recordHistory(env, newData))

\* handlePaste, a closure over env and the clipboard of the same render
handlePaste(s, env, rnd, t) ==
  LET clip == DerefSeq(s.clipboardNodes, nodesRef) IN
  IF Len(clip) = 0 THEN s
  ELSE LET newNodes == pasteNodes(clip, rnd, t)
           newLinks == pasteLinks(env.graphData, clip, newNodes, rnd, t)
           newData == [ nodes |-> env.graphData.nodes \o newNodes,
                        links |-> env.graphData.links \o newLinks ]
       IN [ Recorded(s, recordHistory(env, newData))
              EXCEPT !.selectedNodes =
                       [ i \in 1..Len(newNodes) |-> ValueEntry(newNodes[i]) ] ]

----------------------------------------------------------------------------
(* Documents: what JSON.parse returns for an imported file or for the      *)
(* generation service's response                                           *)

DocSmall ==
  [ nodes |-> << MkNode("a", "Alpha", "table", << >>),
                 MkNode("b", "Beta", "node", << >>) >>,
    links |-> << MkLink("ab", "a", "b", "HAS") >> ]

\* a schema that keeps node '1' and adds a node
DocExtend ==
  [ nodes |-> << MkNode("1", "User", "node", <<"username">>),
                 MkNode("a", "Alpha", "table", << >>) >>,
    links |-> << MkLink("1a", "1", "a", "HAS") >> ]

\* two nodes with the same id
DocDuplicateIds ==
  [ nodes |-> << MkNode("a", "Alpha", "table", << >>),
                 MkNode("a", "Again", "node", << >>) >>,
    links |-> << >> ]

\* a link whose target is no node of the document
DocDangling ==
  [ nodes |-> << MkNode("a", "Alpha", "table", << >>) >>,
    links |-> << MkLink("az", "a", "z", "HAS") >> ]

\* the initial graph with node '1' renamed
DocRelabel ==
  [ INITIAL_DATA EXCEPT !.nodes[1].label = "Account" ]

\* a graph with as many nodes and links as the initial graph, in which node
\* '9' stands where node '3' was
DocSameSize ==
  [ nodes |-> << MkNode("1", "User", "node", <<"username">>),
                 MkNode("2", "Post", "document", <<"content">>),
                 MkNode("9", "Tag", "table", <<>>) >>,
    links |-> << MkLink("l1", "1", "2", "AUTHORED"),
                 MkLink("l8", "1", "9", "TAGGED"),
                 MkLink("l9", "9", "2", "ON") >> ]

DocNoLinks == [ nodes |-> << MkNode("a", "Alpha", "table", << >>) >> ]

DocNoNodes == [ links |-> << >> ]

\* outcomes of reading and parsing the chosen file
ImportOutcomes ==
  { [ kind |-> "parsed", doc |-> d ] :
      d \in { DocSmall, DocDuplicateIds, DocDangling, DocNoLinks, DocNoNodes } }
  \cup { [ kind |-> "unparsable", doc |-> DocNoNodes ],
         [ kind |-> "empty", doc |-> DocNoNodes ] }

\* outcomes of geminiService.getSchemaFromAI
\* what a generation request meets: no API key in the environment, a call
\* that is rejected, a response without text, a text that holds no JSON, or
\* a text that parses to a document
ServiceResponses ==
  { [ kind |-> k, doc |-> DocNoNodes ] : k \in { "noKey", "rejected", "noText", "notJson" } }
  \cup { [ kind |-> "json", doc |-> d ] :
           d \in { DocSmall, DocExtend, DocDuplicateIds, DocDangling, DocNoLinks, DocNoNodes } }

\* getSchemaFromAI that takes a response without text for a small document
getSchemaFromAI_NoTextCheck(r) ==
  IF r.kind = "json"
  THEN [ kind |-> "parsed", doc |-> r.doc ]
  ELSE IF r.kind = "noText"
       THEN [ kind |-> "parsed", doc |-> DocSmall ]
       ELSE [ kind |-> "throws", doc |-> DocNoNodes ]

\* getSchemaFromAI: returns the parsed document, throws for everything else
getSchemaFromAI(r) ==
  IF r.kind = "json"
  THEN [ kind |-> "parsed", doc |-> r.doc ]
  ELSE [ kind |-> "throws", doc |-> DocNoNodes ]

GenerateOutcomes == { getSchemaFromAI(r) : r \in ServiceResponses }


----------------------------------------------------------------------------
(* Schema generation: integration of the service's result *)

\* the merge branch of handleGenerateSchema
mergeData(g, newSchema) ==
  LET safeNewNodes == IF HasNodes(newSchema) THEN newSchema.nodes ELSE << >>
      safeNewLinks == IF HasLinks(newSchema) THEN newSchema.links ELSE << >>
  IN [ nodes |-> [ i \in 1..Len(safeNewNodes) |->
                     LET n == safeNewNodes[i]
                         k == MapGetIdx(g.nodes, n.id)
                     IN IF k # 0
                        THEN [ n EXCEPT !.x = g.nodes[k].x, !.y = g.nodes[k].y ]
                        ELSE n ],
       links |-> safeNewLinks ]

\* finalData of handleGenerateSchema
finalData(mode, g, newSchema) ==
  IF mode = "replace" THEN newSchema ELSE mergeData(g, newSchema)

----------------------------------------------------------------------------
(* One render: the state a handler left, then the effects *)

\* the state of the current render, as closures capture it
Cur ==
  [ graphData |-> graphData, history |-> history, historyIndex |-> historyIndex,
    selectedNodes |-> selectedNodes, selectedLinks |-> selectedLinks,
    clipboardNodes |-> clipboardNodes, grouping |-> grouping,
    isAILoading |-> isAILoading, isAIModalOpen |-> isAIModalOpen ]

EnvOf(s) ==
  [ graphData |-> s.graphData, history |-> s.history, historyIndex |-> s.historyIndex ]

\* App reads graphData.nodes.length and GraphCanvas reads data.links.length
\* while rendering
RenderThrows(s) == ~HasNodes(s.graphData) \/ ~HasLinks(s.graphData)

\* dependencies of the main simulation effect:
\* [data.nodes.length, data.links.length, dimensions, config.grouping]
NeedsRebuild(s) ==
  \/ Len(s.graphData.nodes) # Len(graphData.nodes)
  \/ Len(s.graphData.links) # Len(graphData.links)
  \/ s.grouping # grouping

NoGesture == [ phase |-> "idle", node |-> 0, isMulti |-> FALSE, isLinkMode |-> FALSE ]

\* s: the App state the handler set; arena: the arena as the handler left
\* it; gest: the gesture after the event, which ends when its node's
\* element is removed by a rebuild.  Every event counts against the limit
\* on events; a limit below 0 is no limit
CommitAll(s, arena, gest, name, alert) ==
  /\ graphData' = s.graphData
  /\ history' = s.history
  /\ historyIndex' = s.historyIndex
  /\ isAILoading' = s.isAILoading
  /\ isAIModalOpen' = s.isAIModalOpen
  /\ grouping' = s.grouping
  /\ op' = [ name |-> name, alert |-> alert ]
  /\ limits' = limits
  /\ used' = IF limits.events < 0 THEN used ELSE used + 1
  /\ IF RenderThrows(s)
     THEN /\ crashed' = TRUE
          /\ selectedNodes' = s.selectedNodes
          /\ selectedLinks' = s.selectedLinks
          /\ clipboardNodes' = s.clipboardNodes
          /\ nodesRef' = arena
          /\ gesture' = NoGesture
          /\ UNCHANGED << linksRef, canvasEnv >>
     ELSE LET synced == SyncArena(arena, s.graphData)
          IN /\ crashed' = FALSE
             /\ IF NeedsRebuild(s)
                THEN /\ nodesRef' = RebuildNodes(synced, s.graphData)
                     /\ linksRef' = RebuildLinks(s.graphData)
                     /\ canvasEnv' = EnvOf(s)
                     /\ selectedNodes' = Freeze(s.selectedNodes, synced)
                     /\ clipboardNodes' = Freeze(s.clipboardNodes, synced)
                     /\ gesture' = NoGesture
                ELSE /\ nodesRef' = synced
                     /\ UNCHANGED << linksRef, canvasEnv >>
                     /\ selectedNodes' = s.selectedNodes
                     /\ clipboardNodes' = s.clipboardNodes
                     /\ gesture' = gest
             /\ selectedLinks' = s.selectedLinks

Commit(s, name, alert) == CommitAll(s, nodesRef, gesture, name, alert)

----------------------------------------------------------------------------
(* Initial state: the first render of App and GraphCanvas *)

InitWith(lim) ==
  /\ graphData = INITIAL_DATA
  /\ history = << INITIAL_DATA >>
  /\ historyIndex = 0
  /\ selectedNodes = << >>
  /\ selectedLinks = << >>
  /\ clipboardNodes = << >>
  /\ isAILoading = FALSE
  /\ isAIModalOpen = FALSE
  /\ grouping = "force"
  /\ nodesRef = RebuildNodes(<< >>, INITIAL_DATA)
  /\ linksRef = RebuildLinks(INITIAL_DATA)
  /\ canvasEnv = [ graphData |-> INITIAL_DATA, history |-> << INITIAL_DATA >>,
                   historyIndex |-> 0 ]
  /\ genPending = << >>
  /\ importPending = << >>
  /\ now = 0 - 1
  /\ crashed = FALSE
  /\ gesture = NoGesture
  /\ used = 0
  /\ limits = lim
  /\ op = [ name |-> "init", alert |-> "" ]

----------------------------------------------------------------------------
(* Inputs explored *)

\* the palette kind dragged (Sidebar: handleDragStart) and the drop point
DropTypes == { "table" }
DropPoints == { << 100, 200 >> }
\* pointer positions during a drag
DragPoints == { << 50, 60 >> }
\* values typed or picked in the Sidebar editors
NodeFieldInputs == { << "label", "Renamed" >>, << "type", "table" >>,
                     << "color", "#ef4444" >> }
LinkFieldInputs == { << "label", "RENAMED" >>, << "type", "ref" >> }
GroupingModes == { "force", "grid", "circle" }

\* type === 'table' ? '#3b82f6' : type === 'document' ? '#10b981' : '#8b5cf6'
defaultColor(type) ==
  IF type = "table" THEN "#3b82f6"
  ELSE IF type = "document" THEN "#10b981" ELSE "#8b5cf6"

SetField(r, field, value) ==
  CASE field = "label" -> [ r EXCEPT !.label = value ]
    [] field = "type"  -> [ r EXCEPT !.type = value ]
    [] field = "color" -> [ r EXCEPT !.color = value ]

\* indices of arena entries: a graph holds the three initial nodes or links
\* and what the events added
MaxArena == 3 + 3 * (MaxEvents + MaxClipboardEvents)

\* Date.now() when an event reads it: time has passed since the last
\* reading, or not; the first reading is 0
Times == { t \in { now, now + 1 } : 0 <= t /\ t <= limits.clock }

CanAct == ~crashed /\ (limits.events < 0 \/ used < limits.events)

\* the modal's backdrop covers the window while it is open, and one pointer
\* makes one gesture at a time
PointerFree == CanAct /\ ~isAIModalOpen /\ gesture.phase = "idle"

----------------------------------------------------------------------------
(* Undo and redo: toolbar buttons, Ctrl+Z, Ctrl+R *)

Undo ==
  /\ CanAct
  /\ Commit(handleUndo(Cur), "undo", "")
  /\ UNCHANGED << genPending, importPending, now >>

Redo ==
  /\ CanAct
  /\ Commit(handleRedo(Cur), "redo", "")
  /\ UNCHANGED << genPending, importPending, now >>

----------------------------------------------------------------------------
(* Pointer events of GraphCanvas.  A press on a node fires dragstarted;    *)
(* moves fire dragged; the release fires dragended and, when the pointer   *)
(* did not move, the node's click handler.                                 *)

\* dragstarted on the i-th node of the arena
DragStart(i, isMulti, isLinkMode) ==
  /\ PointerFree
  /\ i \in 1..Len(nodesRef)
  /\ LET d == [ nodesRef[i] EXCEPT !.fx = nodesRef[i].x, !.fy = nodesRef[i].y ]
         arena == [ nodesRef EXCEPT ![i] = d ]
         isSelected == d.id \in SelIds(selectedNodes)
     IN CommitAll(IF ~isSelected /\ ~isLinkMode
                  THEN handleNodeSelect(Cur, LiveEntry(i), isMulti)
                  ELSE Cur,
                  arena,
                  [ phase |-> "down", node |-> i, isMulti |-> isMulti,
                    isLinkMode |-> isLinkMode ],
                  "dragStart", "")
  /\ UNCHANGED << genPending, importPending, now >>

\* dragged that moves the node itself under the pointer
Dragged_MovesNode(pt) ==
  /\ CanAct
  /\ gesture.phase \in { "down", "moved" }
  /\ CommitAll(Cur,
               [ nodesRef EXCEPT ![gesture.node] =
                   [ @ EXCEPT !.fx = pt[1], !.fy = pt[2], !.x = pt[1], !.y = pt[2] ] ],
               [ gesture EXCEPT !.phase = "moved" ],
               "dragged", "")
  /\ UNCHANGED << genPending, importPending, now >>

\* dragged
Dragged(pt) ==
  /\ CanAct
  /\ gesture.phase \in { "down", "moved" }
  /\ CommitAll(Cur,
               [ nodesRef EXCEPT ![gesture.node] =
                   [ @ EXCEPT !.fx = pt[1], !.fy = pt[2] ] ],
               [ gesture EXCEPT !.phase = "moved" ],
               "dragged", "")
  /\ UNCHANGED << genPending, importPending, now >>

\* dragended after a move: d3 suppresses the click
DragEnd ==
  /\ CanAct
  /\ gesture.phase = "moved"
  /\ CommitAll(Cur, nodesRef, NoGesture, "dragEnd", "")
  /\ UNCHANGED << genPending, importPending, now >>

\* a click that does not compare the clicked node with the selected one
NodeClick_AllowsSelfLink ==
  /\ CanAct
  /\ gesture.phase = "down"
  /\ LET d == nodesRef[gesture.node]
         sel == DerefSeq(selectedNodes, nodesRef)
     IN IF gesture.isLinkMode /\ Len(sel) = 1
        THEN \E t \in Times :
               /\ CommitAll(handleLinkCreate(Cur, canvasEnv, sel[1].id, d.id, t),
                            nodesRef, NoGesture, "linkCreate", "")
               /\ now' = t
        ELSE /\ CommitAll(handleNodeSelect(Cur, LiveEntry(gesture.node), gesture.isMulti),
                          nodesRef, NoGesture, "nodeClick", "")
             /\ now' = now
  /\ UNCHANGED << genPending, importPending >>

\* release without a move: dragended, then the node's click handler.
\* Shift+click with one other node selected creates a link (onLinkCreate is
\* the handleLinkCreate the main simulation effect captured), any other
\* click selects
NodeClick ==
  /\ CanAct
  /\ gesture.phase = "down"
  /\ LET d == nodesRef[gesture.node]
         sel == DerefSeq(selectedNodes, nodesRef)
     IN IF gesture.isLinkMode /\ Len(sel) = 1 /\ sel[1].id # d.id
        THEN \E t \in Times :
               /\ CommitAll(handleLinkCreate(Cur, canvasEnv, sel[1].id, d.id, t),
                            nodesRef, NoGesture, "linkCreate", "")
               /\ now' = t
        ELSE /\ CommitAll(handleNodeSelect(Cur, LiveEntry(gesture.node), gesture.isMulti),
                          nodesRef, NoGesture, "nodeClick", "")
             /\ now' = now
  /\ UNCHANGED << genPending, importPending >>

\* click on the i-th link of the arena
LinkClick(i, isMulti) ==
  /\ PointerFree
  /\ i \in 1..Len(linksRef)
  /\ Commit(handleLinkSelect(Cur, linksRef[i], isMulti), "linkClick", "")
  /\ UNCHANGED << genPending, importPending, now >>

\* handleBgClick
BgClick(isMulti) ==
  /\ PointerFree
  /\ Commit(handleLinkSelectNull(handleNodeSelectNull(Cur, isMulti), isMulti),
            "bgClick", "")
  /\ UNCHANGED << genPending, importPending, now >>

\* handleDrop of a palette item
Drop(type, pt, t) ==
  /\ PointerFree
  /\ t \in Times
  /\ now' = t
  /\ LET newNode == [ MkNode("node-" \o ToString(t), "New Node", type, << >>)
                        EXCEPT !.x = pt[1], !.y = pt[2], !.color = defaultColor(type) ]
     IN Commit(handleNodesChange(Cur, EnvOf(Cur), Append(graphData.nodes, newNode)),
               "drop", "")
  /\ UNCHANGED << genPending, importPending >>

----------------------------------------------------------------------------
(* Sidebar editors: the node editor shows when a node is selected, the     *)
(* link editor when no node but a link is selected                         *)

\* updateNodesField(field, value)
UpdateNodesField(field, value) ==
  /\ PointerFree
  /\ Len(selectedNodes) > 0
  /\ LET sel == DerefSeq(selectedNodes, nodesRef)
         updated == [ i \in 1..Len(sel) |-> SetField(sel[i], field, value) ]
     IN Commit(handleUpdateNodes(Cur, updated), "updateNodes", "")
  /\ UNCHANGED << genPending, importPending, now >>

\* addPropertyToAll
AddPropertyToAll ==
  /\ PointerFree
  /\ Len(selectedNodes) > 0
  /\ LET sel == DerefSeq(selectedNodes, nodesRef)
         updated == [ i \in 1..Len(sel) |->
                        [ sel[i] EXCEPT !.properties = Append(@, "new_prop") ] ]
     IN Commit(handleUpdateNodes(Cur, updated), "updateNodes", "")
  /\ UNCHANGED << genPending, importPending, now >>

\* updateSingleProperty(propId, 'key', value) on the k-th property
UpdateSingleProperty(k, value) ==
  /\ PointerFree
  /\ Len(selectedNodes) = 1
  /\ LET node == Deref(selectedNodes[1], nodesRef) IN
     /\ k \in 1..Len(node.properties)
     /\ Commit(handleUpdateNodes(Cur,
                 << [ node EXCEPT !.properties = [ @ EXCEPT ![k] = value ] ] >>),
               "updateNodes", "")
  /\ UNCHANGED << genPending, importPending, now >>

\* deleteSingleProperty(propId) of the k-th property
DeleteSingleProperty(k) ==
  /\ PointerFree
  /\ Len(selectedNodes) = 1
  /\ LET node == Deref(selectedNodes[1], nodesRef) IN
     /\ k \in 1..Len(node.properties)
     /\ Commit(handleUpdateNodes(Cur,
                 << [ node EXCEPT !.properties =
                        SubSeq(@, 1, k - 1) \o SubSeq(@, k + 1, Len(@)) ] >>),
               "updateNodes", "")
  /\ UNCHANGED << genPending, importPending, now >>

\* updateLinksField(field, value)
UpdateLinksField(field, value) ==
  /\ PointerFree
  /\ Len(selectedNodes) = 0
  /\ Len(selectedLinks) > 0
  /\ Commit(handleUpdateLinks(Cur,
              [ i \in 1..Len(selectedLinks) |-> SetField(selectedLinks[i], field, value) ]),
            "updateLinks", "")
  /\ UNCHANGED << genPending, importPending, now >>

\* the node editor's Delete Selection button
SidebarDeleteNodes ==
  /\ PointerFree
  /\ Len(selectedNodes) > 0
  /\ Commit(handleDeleteNodes(Cur, EnvOf(Cur), SelIds(selectedNodes)), "deleteNodes", "")
  /\ UNCHANGED << genPending, importPending, now >>

\* the link editor's Delete Selection button
SidebarDeleteLinks ==
  /\ PointerFree
  /\ Len(selectedNodes) = 0
  /\ Len(selectedLinks) > 0
  /\ Commit(handleDeleteLinks(Cur, EnvOf(Cur), Ids(selectedLinks)), "deleteLinks", "")
  /\ UNCHANGED << genPending, importPending, now >>

----------------------------------------------------------------------------
(* Keyboard (handleKeyDown) *)

\* Delete or Backspace: both calls run in the closure of the same render
KeyDelete ==
  /\ CanAct
  /\ Len(selectedNodes) > 0 \/ Len(selectedLinks) > 0
  /\ LET env == EnvOf(Cur)
         s1 == IF Len(selectedNodes) > 0
               THEN handleDeleteNodes(Cur, env, SelIds(selectedNodes)) ELSE Cur
         s2 == IF Len(selectedLinks) > 0
               THEN handleDeleteLinks(s1, env, Ids(selectedLinks)) ELSE s1
     IN Commit(s2, "keyDelete", "")
  /\ UNCHANGED << genPending, importPending, now >>

\* Ctrl+C
KeyCopy ==
  /\ CanAct
  /\ Commit(handleCopy(Cur), "copy", "")
  /\ UNCHANGED << genPending, importPending, now >>

\* Ctrl+V
KeyPaste ==
  /\ CanAct
  /\ IF Len(clipboardNodes) = 0
     THEN /\ Commit(Cur, "paste", "")
          /\ now' = now
     ELSE \E rnd \in RandomSuffixes, t \in Times :
             /\ Commit(handlePaste(Cur, EnvOf(Cur), rnd, t), "paste", "")
             /\ now' = t
  /\ UNCHANGED << genPending, importPending >>

----------------------------------------------------------------------------
(* Import (Toolbar file input) *)

\* handleImport: the file is read asynchronously; onload keeps the closure
ImportStart ==
  /\ PointerFree
  /\ Len(importPending) < limits.pendingImports
  /\ importPending' = Append(importPending, EnvOf(Cur))
  /\ Commit(Cur, "importStart", "")
  /\ UNCHANGED << genPending, now >>

\* fileReader.onload of the k-th pending load
ImportLoad(k, out) ==
  /\ CanAct
  /\ k \in 1..Len(importPending)
  /\ importPending' = SubSeq(importPending, 1, k - 1)
                        \o SubSeq(importPending, k + 1, Len(importPending))
  /\ LET env == importPending[k] IN
     CASE out.kind = "empty" ->
            Commit(Cur, "import", "")
       [] out.kind = "unparsable" ->
            Commit(Cur, "import", "Error parsing JSON")
       [] out.kind = "parsed" /\ ~(HasNodes(out.doc) /\ HasLinks(out.doc)) ->
            Commit(Cur, "import", "Invalid JSON format")
       [] OTHER ->
            Commit(Recorded(Cur, recordHistory(env, out.doc)), "import", "")
  /\ UNCHANGED << genPending, now >>

----------------------------------------------------------------------------
(* Schema generation (AIGeneratorModal, handleGenerateSchema) *)

OpenAIModal ==
  /\ PointerFree
  /\ Commit([ Cur EXCEPT !.isAIModalOpen = TRUE ], "openModal", "")
  /\ UNCHANGED << genPending, importPending, now >>

\* the modal's close and Cancel buttons
CloseAIModal ==
  /\ CanAct
  /\ isAIModalOpen
  /\ Commit([ Cur EXCEPT !.isAIModalOpen = FALSE ], "closeModal", "")
  /\ UNCHANGED << genPending, importPending, now >>

\* a Generate button that is never disabled
GenerateStart_NeverDisabled(mode) ==
  /\ CanAct
  /\ isAIModalOpen
  /\ genPending' = Append(genPending, [ mode |-> mode, env |-> EnvOf(Cur) ])
  /\ Commit([ Cur EXCEPT !.isAILoading = TRUE ], "generateStart", "")
  /\ UNCHANGED << importPending, now >>

\* the Generate button (disabled while isLoading): handleGenerateSchema up
\* to the await
GenerateStart(mode) ==
  /\ CanAct
  /\ isAIModalOpen
  /\ ~isAILoading
  /\ genPending' = Append(genPending, [ mode |-> mode, env |-> EnvOf(Cur) ])
  /\ Commit([ Cur EXCEPT !.isAILoading = TRUE ], "generateStart", "")
  /\ UNCHANGED << importPending, now >>

\* handleGenerateSchema after the await without the finally block: the
\* flag is cleared on success only
GenerateSettle_NoFinally(out) ==
  /\ CanAct
  /\ Len(genPending) > 0
  /\ genPending' = Tail(genPending)
  /\ LET req == Head(genPending) IN
     IF out.kind = "throws"
     THEN Commit(Cur, "generate",
                 "Failed to generate schema. Please check your API Key or try again.")
     ELSE Commit([ Recorded(Cur, recordHistory(req.env,
                       finalData(req.mode, req.env.graphData, out.doc)))
                     EXCEPT !.isAIModalOpen = FALSE, !.isAILoading = FALSE ],
                 "generate", "")
  /\ UNCHANGED << importPending, now >>

\* handleGenerateSchema after the await, for the first pending request
GenerateSettle(out) ==
  /\ CanAct
  /\ Len(genPending) > 0
  /\ genPending' = Tail(genPending)
  /\ LET req == Head(genPending) IN
     IF out.kind = "throws"
     THEN Commit([ Cur EXCEPT !.isAILoading = FALSE ], "generate",
                 "Failed to generate schema. Please check your API Key or try again.")
     ELSE Commit([ Recorded(Cur, recordHistory(req.env,
                       finalData(req.mode, req.env.graphData, out.doc)))
                     EXCEPT !.isAIModalOpen = FALSE, !.isAILoading = FALSE ],
                 "generate", "")
  /\ UNCHANGED << importPending, now >>

----------------------------------------------------------------------------
(* The simulation tick.  Positions are in pixels and velocities in tenths  *)
(* of a pixel per tick, so that the factor 0.1 of the grid correction      *)
(* keeps them whole.                                                       *)

\* const gridSize = 100 in the tick handler
GridSize == 100

\* config.strength (INITIAL_CONFIG; no control changes it)
Strength == 1

\* a value that JavaScript takes for true in a condition: a number that is
\* neither undefined nor 0
Truthy(v) == v # Undef /\ v # 0

\* Math.round(v / gridSize) * gridSize; Math.round rounds halves up
RoundToGrid(v) == ((v + GridSize \div 2) \div GridSize) * GridSize

\* the velocities that the forces of one tick leave a free node with, in
\* tenths of a pixel per tick
TickVelocities == { << 0, 0 >>, << 30, 0 - 20 >> }

\* simulation.tick() of d3-force for one node, after the forces left it the
\* velocity w: a free coordinate moves by the velocity, a pinned one is put
\* on the pin and its velocity is zeroed
d3Step(n, w) ==
  [ n EXCEPT !.vx = IF n.fx = Undef THEN w[1] ELSE 0,
             !.x  = IF n.fx = Undef THEN n.x + (w[1] \div 10) ELSE n.fx,
             !.vy = IF n.fy = Undef THEN w[2] ELSE 0,
             !.y  = IF n.fy = Undef THEN n.y + (w[2] \div 10) ELSE n.fy ]

\* tickHandler that tests only the grouping mode
tickHandler_PinnedToo(d, mode) ==
  IF mode = "grid"
  THEN [ d EXCEPT
           !.vx = (IF Truthy(d.vx) THEN d.vx ELSE 0) + (RoundToGrid(d.x) - d.x) * Strength,
           !.vy = (IF Truthy(d.vy) THEN d.vy ELSE 0) + (RoundToGrid(d.y) - d.y) * Strength ]
  ELSE d

\* the body of simulation.on("tick") for one node: the grid correction
tickHandler(d, mode) ==
  IF mode = "grid" /\ ~Truthy(d.fx) /\ ~Truthy(d.fy) /\ Truthy(d.x) /\ Truthy(d.y)
  THEN [ d EXCEPT
           !.vx = (IF Truthy(d.vx) THEN d.vx ELSE 0) + (RoundToGrid(d.x) - d.x) * Strength,
           !.vy = (IF Truthy(d.vy) THEN d.vy ELSE 0) + (RoundToGrid(d.y) - d.y) * Strength ]
  ELSE d

\* one tick of the simulation: d3's step, then the tick handler that the
\* main simulation effect bound, which reads the grouping of that render
Tick(w) ==
  /\ CanAct
  /\ CommitAll(Cur,
               [ k \in 1..Len(nodesRef) |-> tickHandler(d3Step(nodesRef[k], w), grouping) ],
               gesture, "tick", "")
  /\ UNCHANGED << genPending, importPending, now >>

----------------------------------------------------------------------------
(* Toolbar layout buttons *)

SetGrouping(mode) ==
  /\ PointerFree
  /\ mode # grouping
  /\ Commit([ Cur EXCEPT !.grouping = mode ], "setGrouping", "")
  /\ UNCHANGED << genPending, importPending, now >>

----------------------------------------------------------------------------
(* Specifications *)

\* Spec: every event of the editor, a bounded number of events
LimAll == [ events |-> MaxEvents, pendingImports |-> MaxEvents, clock |-> MaxClock ]

Next ==
  \/ Undo
  \/ Redo
  \/ \E i \in 1..MaxArena, m \in BOOLEAN, l \in BOOLEAN : DragStart(i, m, l)
  \/ \E pt \in DragPoints : Dragged(pt)
  \/ DragEnd
  \/ NodeClick
  \/ \E i \in 1..MaxArena, m \in BOOLEAN : LinkClick(i, m)
  \/ \E m \in BOOLEAN : BgClick(m)
  \/ \E type \in DropTypes, pt \in DropPoints, t \in 0..MaxClock : Drop(type, pt, t)
  \/ \E f \in NodeFieldInputs : UpdateNodesField(f[1], f[2])
  \/ AddPropertyToAll
  \/ \E k \in 1..MaxArena : UpdateSingleProperty(k, "renamed_prop")
  \/ \E k \in 1..MaxArena : DeleteSingleProperty(k)
  \/ \E f \in LinkFieldInputs : UpdateLinksField(f[1], f[2])
  \/ SidebarDeleteNodes
  \/ SidebarDeleteLinks
  \/ KeyDelete
  \/ KeyCopy
  \/ KeyPaste
  \/ ImportStart
  \/ \E k \in 1..MaxEvents, out \in ImportOutcomes : ImportLoad(k, out)
  \/ OpenAIModal
  \/ CloseAIModal
  \/ \E mode \in { "merge", "replace" } : GenerateStart(mode)
  \/ \E out \in GenerateOutcomes : GenerateSettle(out)
  \/ \E mode \in GroupingModes : SetGrouping(mode)

Spec == InitWith(LimAll) /\ [][Next]_vars

\* SpecStructural: the editor without the Sidebar's cosmetic editors
NextStructural ==
  \/ Undo
  \/ Redo
  \/ \E i \in 1..MaxArena, m \in BOOLEAN, l \in BOOLEAN : DragStart(i, m, l)
  \/ \E pt \in DragPoints : Dragged(pt)
  \/ DragEnd
  \/ NodeClick
  \/ \E i \in 1..MaxArena, m \in BOOLEAN : LinkClick(i, m)
  \/ \E m \in BOOLEAN : BgClick(m)
  \/ \E type \in DropTypes, pt \in DropPoints, t \in 0..MaxClock : Drop(type, pt, t)
  \/ SidebarDeleteNodes
  \/ SidebarDeleteLinks
  \/ KeyDelete
  \/ KeyCopy
  \/ KeyPaste
  \/ ImportStart
  \/ \E k \in 1..MaxEvents, out \in ImportOutcomes : ImportLoad(k, out)
  \/ OpenAIModal
  \/ CloseAIModal
  \/ \E mode \in { "merge", "replace" } : GenerateStart(mode)
  \/ \E out \in GenerateOutcomes : GenerateSettle(out)
  \/ \E mode \in GroupingModes : SetGrouping(mode)

SpecStructural == InitWith(LimAll) /\ [][NextStructural]_vars

\* SpecHistory: a session of any length in which one file, DocRelabel, is
\* imported again and again, each load completing before the next undo or
\* redo
LimHistory == [ events |-> 0 - 1, pendingImports |-> 1, clock |-> 0 ]

NextHistory ==
  \/ importPending = << >> /\ Undo
  \/ importPending = << >> /\ Redo
  \/ ImportStart
  \/ ImportLoad(1, [ kind |-> "parsed", doc |-> DocRelabel ])

SpecHistory == InitWith(LimHistory) /\ [][NextHistory]_vars

\* SpecClipboard: selection, copy and paste, undo and redo, and the import of
\* a file that renames a node
LimClipboard == [ events |-> MaxClipboardEvents, pendingImports |-> 1, clock |-> MaxClock ]

NextClipboard ==
  \/ Undo
  \/ Redo
  \/ \E i \in 1..MaxArena, m \in BOOLEAN, l \in BOOLEAN : DragStart(i, m, l)
  \/ \E pt \in DragPoints : Dragged(pt)
  \/ DragEnd
  \/ NodeClick
  \/ \E i \in 1..MaxArena, m \in BOOLEAN : LinkClick(i, m)
  \/ KeyCopy
  \/ KeyPaste
  \/ ImportStart
  \/ ImportLoad(1, [ kind |-> "parsed", doc |-> DocRelabel ])

SpecClipboard == InitWith(LimClipboard) /\ [][NextClipboard]_vars

----------------------------------------------------------------------------
(* History capacity *)

\* C1: the history log never holds more than HistoryCapacity (50) snapshots;
\* a record that would make it longer evicts the oldest snapshot, keeps the
\* others in order, and leaves the cursor on the snapshot just recorded.
\* Checked under SpecHistory, where every record is the import of DocRelabel.
C1_HistoryCapacity ==
  /\ [](Len(history) <= HistoryCapacity)
  /\ [][ (op'.name = "import" /\ historyIndex + 1 = HistoryCapacity)
           => /\ Len(history') = HistoryCapacity
              /\ history' = Tail(history) \o << DocRelabel >>
              /\ historyIndex' = Len(history') - 1
              /\ history'[historyIndex' + 1] = graphData' ]_vars

\* a record has evicted the initial snapshot from a full log
C1_Witness ==
  /\ op.name = "import"
  /\ Len(history) = HistoryCapacity
  /\ historyIndex = HistoryCapacity - 1
  /\ history[1] # INITIAL_DATA

----------------------------------------------------------------------------
(* Undo and redo *)

\* C2: after structural operations (SpecStructural has no cosmetic editor),
\* whenever undo is enabled, undo followed immediately by redo gives back the
\* live graph and the cursor of before the undo.
C2_UndoRedoRestores ==
  (~crashed /\ historyIndex > 0)
    => LET u == handleUndo(Cur)
           r == handleRedo(u)
       IN /\ u.historyIndex = historyIndex - 1
          /\ r.graphData = graphData
          /\ r.historyIndex = historyIndex

\* two structural operations were recorded, the last one a drop, and undoing
\* it changes the live graph
C2_Witness ==
  /\ ~crashed
  /\ op.name = "drop"
  /\ historyIndex >= 2
  /\ handleUndo(Cur).graphData # graphData
  /\ handleRedo(handleUndo(Cur)).graphData = graphData

\* C3: a record drops every snapshot after the current cursor, keeps every
\* snapshot at or before it (but the oldest, when the log is over capacity),
\* appends the new snapshot and puts the cursor on it, so that redo is
\* disabled right after every recorded operation.
C3_RecordTruncatesAtCursor ==
  [][ history' # history
      => LET kept == SubSeq(history, 1, historyIndex + 1)
             full == kept \o << graphData' >>
         IN /\ history' = IF Len(full) > HistoryCapacity THEN Tail(full) ELSE full
            /\ historyIndex' = Len(history') - 1
            /\ ~(historyIndex' < Len(history') - 1) ]_vars

\* what the entries of the node selection and of the clipboard hold
SelectedNodeValues == DerefSeq(selectedNodes, nodesRef)
ClipboardValues == DerefSeq(clipboardNodes, nodesRef)

\* C5: undo with the cursor at 0 and redo with the cursor on the last
\* snapshot change nothing: live graph, history, cursor, node selection,
\* link selection and clipboard stay as they are.
C5_DisabledUndoRedoNoOp ==
  [][ ( \/ (op'.name = "undo" /\ historyIndex = 0)
        \/ (op'.name = "redo" /\ historyIndex = Len(history) - 1) )
      => /\ UNCHANGED << graphData, history, historyIndex, selectedNodes,
                         selectedLinks, clipboardNodes >>
         /\ SelectedNodeValues' = SelectedNodeValues
         /\ ClipboardValues' = ClipboardValues ]_vars

\* C4: an enabled undo moves the cursor back by one, an enabled redo moves it
\* forward by one; either sets the live graph to the snapshot under the new
\* cursor and empties both selections, and neither changes the history log
\* or what the clipboard holds.
C4_UndoRedoStep ==
  [][ ( \/ (op'.name = "undo" /\ historyIndex > 0)
        \/ (op'.name = "redo" /\ historyIndex < Len(history) - 1) )
      => /\ historyIndex' = IF op'.name = "undo" THEN historyIndex - 1
                                                ELSE historyIndex + 1
         /\ graphData' = history[historyIndex' + 1]
         /\ selectedNodes' = << >>
         /\ selectedLinks' = << >>
         /\ history' = history
         /\ Len(clipboardNodes') = Len(clipboardNodes)
         /\ ClipboardValues' = ClipboardValues ]_vars

\* an undo left a node selection standing: it was made at cursor 0
C5_Witness ==
  /\ op.name = "undo"
  /\ historyIndex = 0
  /\ Len(selectedNodes) > 0
  /\ Len(clipboardNodes) > 0

----------------------------------------------------------------------------
(* What is recorded *)

CosmeticOps == { "updateNodes", "updateLinks" }
DragOps == { "dragStart", "dragged", "dragEnd" }
StructuralOps == { "drop", "linkCreate", "deleteNodes", "deleteLinks", "keyDelete",
                   "paste", "import", "generate" }

\* C6: the cosmetic operations (updateNodes, updateLinks) and the drag
\* handlers never change the history log or the cursor; the log changes only
\* in a structural operation.
C6_OnlyStructuralRecorded ==
  [][ /\ op'.name \in CosmeticOps \cup DragOps
           => UNCHANGED << history, historyIndex >>
      /\ history' # history => op'.name \in StructuralOps ]_vars

\* a node was edited in the Sidebar and the live graph now differs from the
\* snapshot under the cursor
C6_Witness ==
  /\ op.name = "updateNodes"
  /\ graphData # history[historyIndex + 1]

----------------------------------------------------------------------------
(* Cascade delete *)

\* C7: deleting the node ids `ids` from a graph leaves no node whose id is in
\* ids and no link whose source or target is in ids, keeps every other node
\* and every link touching no id in ids as it was, and adds nothing.
C7_DeleteNodesCascade ==
  [][ ( \/ op'.name = "deleteNodes"
        \/ (op'.name = "keyDelete" /\ Len(selectedNodes) > 0 /\ Len(selectedLinks) = 0) )
      => LET ids == SelIds(selectedNodes)
             touches(l) == getNodeId(l.source) \in ids \/ getNodeId(l.target) \in ids
         IN /\ \A n \in Range(graphData'.nodes) : n.id \notin ids
            /\ \A l \in Range(graphData'.links) : ~touches(l)
            /\ graphData'.nodes = SelectSeq(graphData.nodes, LAMBDA n : n.id \notin ids)
            /\ graphData'.links = SelectSeq(graphData.links, LAMBDA l : ~touches(l)) ]_vars

\* a delete removed a node and at least one link with it, and kept others
C7_Witness ==
  /\ op.name = "deleteNodes"
  /\ historyIndex > 0
  /\ Len(graphData.nodes) > 0
  /\ Len(graphData.links) > 0
  /\ Len(graphData.nodes) < Len(history[historyIndex].nodes)
  /\ Len(graphData.links) < Len(history[historyIndex].links)

----------------------------------------------------------------------------
(* Invariants of the graph and of the selection *)

\* C8: every link's source and target are ids of nodes of the live graph.
C8_ReferentialIntegrity ==
  (HasNodes(graphData) /\ HasLinks(graphData))
    => \A l \in Range(graphData.links) :
         /\ getNodeId(l.source) \in Ids(graphData.nodes)
         /\ getNodeId(l.target) \in Ids(graphData.nodes)

\* no two nodes of g have the same id
UniqueNodeIds(g) ==
  HasNodes(g) => \A i, j \in 1..Len(g.nodes) : g.nodes[i].id = g.nodes[j].id => i = j

\* C9: node ids are unique in the live graph and in every snapshot of the
\* history log.
C9_UniqueNodeIds ==
  /\ UniqueNodeIds(graphData)
  /\ \A k \in 1..Len(history) : UniqueNodeIds(history[k])

\* C10: the node selection and the link selection are never both non-empty.
C10_SelectionExclusive ==
  Len(selectedNodes) = 0 \/ Len(selectedLinks) = 0

----------------------------------------------------------------------------
(* Selection *)

\* C11: selecting a link (with or without the modifier) leaves the node
\* selection empty, and selecting a node (with or without the modifier)
\* leaves the link selection empty: after every link click and every node
\* click, and for every node and link of the arena selected from any
\* reachable state.
C11_SelectClearsOtherKind ==
  /\ op.name = "linkClick" => Len(selectedNodes) = 0
  /\ op.name = "nodeClick" => Len(selectedLinks) = 0
  /\ ~crashed =>
       /\ \A i \in 1..Len(nodesRef), m \in BOOLEAN :
            handleNodeSelect(Cur, LiveEntry(i), m).selectedLinks = << >>
       /\ \A i \in 1..Len(linksRef), m \in BOOLEAN :
            handleLinkSelect(Cur, linksRef[i], m).selectedNodes = << >>

\* a node click made a node selection, and selecting a link from here
\* empties it
C11_Witness ==
  /\ op.name = "nodeClick"
  /\ Len(selectedNodes) > 0
  /\ Len(linksRef) > 0
  /\ handleLinkSelect(Cur, linksRef[1], TRUE).selectedNodes = << >>
  /\ handleLinkSelect(Cur, linksRef[1], FALSE).selectedNodes = << >>

\* the entries of a node selection whose id is not id, in their order
OtherNodes(sel, id) == SelectSeq(sel, LAMBDA e : Deref(e, nodesRef).id # id)
\* the links of a link selection whose id is not id, in their order
OtherLinks(sel, id) == SelectSeq(sel, LAMBDA l : l.id # id)

\* C12: selecting a node with the modifier toggles exactly the membership of
\* its id in the node selection (removed if present, added at the end
\* otherwise) and leaves every other selected node in place, in the same
\* order; the same for a link and the link selection.  In particular, from
\* any state, selecting A without the modifier, B with it and A with it again
\* leaves exactly B selected.
C12_MultiSelectToggles ==
  ~crashed =>
    /\ \A i \in 1..Len(nodesRef) :
         LET id == nodesRef[i].id
             r  == handleNodeSelect(Cur, LiveEntry(i), TRUE).selectedNodes
         IN /\ SelIds(r) = IF id \in SelIds(selectedNodes)
                           THEN SelIds(selectedNodes) \ { id }
                           ELSE SelIds(selectedNodes) \cup { id }
            /\ OtherNodes(r, id) = OtherNodes(selectedNodes, id)
            /\ Len(r) = IF id \in SelIds(selectedNodes)
                        THEN Len(OtherNodes(selectedNodes, id))
                        ELSE Len(selectedNodes) + 1
    /\ \A i \in 1..Len(linksRef) :
         LET id == linksRef[i].id
             r  == handleLinkSelect(Cur, linksRef[i], TRUE).selectedLinks
         IN /\ Ids(r) = IF id \in Ids(selectedLinks)
                        THEN Ids(selectedLinks) \ { id }
                        ELSE Ids(selectedLinks) \cup { id }
            /\ OtherLinks(r, id) = OtherLinks(selectedLinks, id)
            /\ Len(r) = IF id \in Ids(selectedLinks)
                        THEN Len(OtherLinks(selectedLinks, id))
                        ELSE Len(selectedLinks) + 1
    /\ \A a, b \in 1..Len(nodesRef) :
         nodesRef[a].id # nodesRef[b].id
           => LET s1 == handleNodeSelect(Cur, LiveEntry(a), FALSE)
                  s2 == handleNodeSelect(s1, LiveEntry(b), TRUE)
                  s3 == handleNodeSelect(s2, LiveEntry(a), TRUE)
              IN /\ SelIds(s3.selectedNodes) = { nodesRef[b].id }
                 /\ Len(s3.selectedNodes) = 1

\* a press with the modifier added a second node to the selection, and
\* selecting that node with the modifier again removes it and keeps the other
C12_Witness ==
  /\ op.name = "dragStart"
  /\ gesture.isMulti
  /\ Len(selectedNodes) = 2
  /\ Cardinality(SelIds(selectedNodes)) = 2
  /\ LET r == handleNodeSelect(Cur, LiveEntry(gesture.node), TRUE).selectedNodes
     IN /\ Len(r) = 1
        /\ SelIds(r) = SelIds(selectedNodes) \ { nodesRef[gesture.node].id }

\* C13: selecting a node without the modifier makes the node selection the
\* singleton of that node and the link selection empty, whatever was selected
\* before; selecting null without the modifier (a background click) empties
\* both selections; selecting null with the modifier changes nothing.
C13_SingleSelectAndClear ==
  ~crashed =>
    /\ \A i \in 1..Len(nodesRef) :
         LET r == handleNodeSelect(Cur, LiveEntry(i), FALSE)
         IN /\ Len(r.selectedNodes) = 1
            /\ Deref(r.selectedNodes[1], nodesRef) = nodesRef[i]
            /\ r.selectedLinks = << >>
    /\ LET n == handleNodeSelectNull(Cur, FALSE)
           l == handleLinkSelectNull(Cur, FALSE)
       IN /\ n.selectedNodes = << >> /\ n.selectedLinks = << >>
          /\ l.selectedNodes = << >> /\ l.selectedLinks = << >>
    /\ handleNodeSelectNull(Cur, TRUE) = Cur
    /\ handleLinkSelectNull(Cur, TRUE) = Cur
    /\ op.name = "bgClick"
         => \/ Len(selectedNodes) = 0 /\ Len(selectedLinks) = 0
            \/ handleLinkSelectNull(handleNodeSelectNull(Cur, TRUE), TRUE) = Cur

\* a background click with the modifier left the selected node selected, and
\* from here selecting another node without the modifier replaces it and a
\* background click without the modifier empties the selection
C13_Witness ==
  /\ op.name = "bgClick"
  /\ Len(selectedNodes) > 0
  /\ \E i \in 1..Len(nodesRef) :
       /\ nodesRef[i].id \notin SelIds(selectedNodes)
       /\ SelIds(handleNodeSelect(Cur, LiveEntry(i), FALSE).selectedNodes)
            = { nodesRef[i].id }
  /\ handleNodeSelectNull(Cur, FALSE).selectedNodes = << >>

----------------------------------------------------------------------------
(* Paste *)

\* the nodes a step appended to the live graph
AddedNodes == SubSeq(graphData'.nodes, Len(graphData.nodes) + 1, Len(graphData'.nodes))

\* a paste step with a non-empty clipboard
PasteStep == op'.name = "paste" /\ Len(clipboardNodes) > 0

\* Paste, leaving aside whether the new ids are fresh: a paste with a clipboard of n
\* nodes keeps every node of the graph as it was, in place, and appends n
\* nodes, the i-th carrying the fields of the i-th clipboard node but for its
\* id, its position and its label, which is the clipboard node's label
\* followed by " (Copy)".
PasteAppendsCopies ==
  [][ PasteStep
      => /\ Len(graphData'.nodes) = Len(graphData.nodes) + Len(clipboardNodes)
         /\ SubSeq(graphData'.nodes, 1, Len(graphData.nodes)) = graphData.nodes
         /\ \A i \in 1..Len(clipboardNodes) :
              LET c == ClipboardValues[i]
                  n == AddedNodes[i]
              IN /\ n.label = c.label \o " (Copy)"
                 /\ n = [ c EXCEPT !.id = n.id, !.x = n.x, !.y = n.y,
                                   !.label = n.label ] ]_vars

\* C14: a paste with a clipboard of n nodes appends exactly n new nodes to
\* the graph, each with a fresh id that differs from every id of the graph
\* before the paste and from every other new id, each carrying its clipboard
\* node's fields with " (Copy)" appended to the label; every node of the
\* graph before the paste is unchanged.
C14_PasteAddsFreshCopies ==
  [][ PasteStep
      => /\ Len(graphData'.nodes) = Len(graphData.nodes) + Len(clipboardNodes)
         /\ SubSeq(graphData'.nodes, 1, Len(graphData.nodes)) = graphData.nodes
         /\ \A i \in 1..Len(clipboardNodes) :
              LET c == ClipboardValues[i]
                  n == AddedNodes[i]
              IN /\ n.id \notin Ids(graphData.nodes)
                 /\ \A j \in 1..Len(clipboardNodes) :
                      AddedNodes[j].id = n.id => j = i
                 /\ n.label = c.label \o " (Copy)"
                 /\ n = [ c EXCEPT !.id = n.id, !.x = n.x, !.y = n.y,
                                   !.label = n.label ] ]_vars

\* the links a step appended to the live graph
AddedLinks == SubSeq(graphData'.links, Len(graphData.links) + 1, Len(graphData'.links))

\* the links of the live graph with an endpoint among the clipboard's ids
LinksOfClipboard ==
  SelectSeq(graphData.links,
            LAMBDA l : getNodeId(l.source) \in Ids(ClipboardValues)
                       \/ getNodeId(l.target) \in Ids(ClipboardValues))

\* endpoint new is endpoint old remapped: the id of the pasted duplicate when
\* old is the id of a clipboard node, old itself otherwise
Remapped(old, new) ==
  IF old \in Ids(ClipboardValues)
  THEN \E i \in 1..Len(clipboardNodes) :
         ClipboardValues[i].id = old /\ new = AddedNodes[i].id
  ELSE new = old

\* Paste, leaving aside whether the new ids are fresh: a paste keeps every link of the
\* graph as it was, in place, and appends one link for every link with an
\* endpoint in the clipboard, with the same label and kind and each endpoint
\* remapped when it is in the clipboard and kept when it is not; nothing is
\* appended for the other links.
PasteReattachesLinks ==
  [][ PasteStep
      => /\ SubSeq(graphData'.links, 1, Len(graphData.links)) = graphData.links
         /\ Len(AddedLinks) = Len(LinksOfClipboard)
         /\ \A k \in 1..Len(LinksOfClipboard) :
              LET l == LinksOfClipboard[k]
                  n == AddedLinks[k]
              IN /\ n.label = l.label
                 /\ n.type = l.type
                 /\ Remapped(getNodeId(l.source), n.source)
                 /\ Remapped(getNodeId(l.target), n.target) ]_vars

\* C15: a paste adds, for every link of the graph with both endpoints in the
\* clipboard, exactly one link with a fresh id, the same label and both
\* endpoints remapped, and for every link with one endpoint in the clipboard
\* exactly one link with a fresh id and only that endpoint remapped; it adds
\* nothing for the other links and leaves every link of the graph unchanged.
C15_PasteReattachesEdges ==
  [][ PasteStep
      => /\ SubSeq(graphData'.links, 1, Len(graphData.links)) = graphData.links
         /\ Len(AddedLinks) = Len(LinksOfClipboard)
         /\ \A k \in 1..Len(LinksOfClipboard) :
              LET l == LinksOfClipboard[k]
                  n == AddedLinks[k]
              IN /\ n.id \notin Ids(graphData.links)
                 /\ \A j \in 1..Len(AddedLinks) : AddedLinks[j].id = n.id => j = k
                 /\ n.label = l.label
                 /\ Remapped(getNodeId(l.source), n.source)
                 /\ Remapped(getNodeId(l.target), n.target) ]_vars

\* C16: for every clipboard node, pinned or not, the duplicate a paste adds
\* enters the layout arena at the clipboard node's position offset by
\* PasteOffset on both axes, so it does not lie exactly on its original.
C16_PasteOffsetsDuplicate ==
  [][ (PasteStep /\ ~crashed')
      => \A i \in 1..Len(clipboardNodes) :
           LET c == ClipboardValues[i]
               d == nodesRef'[Len(graphData.nodes) + i]
           IN /\ PasteOffset # 0
              /\ d.x = c.x + PasteOffset
              /\ d.y = c.y + PasteOffset
              /\ << d.x, d.y >> # << c.x, c.y >> ]_vars

\* C17: a paste with a non-empty clipboard appends exactly one snapshot,
\* equal to the resulting graph, after the snapshot under the cursor, puts
\* the cursor on it, and makes the node selection exactly the nodes it
\* created; a paste with an empty clipboard changes neither the graph, the
\* history log, the cursor nor the selections.
C17_PasteRecordsAndSelects ==
  [][ /\ PasteStep
           => LET full == SubSeq(history, 1, historyIndex + 1) \o << graphData' >>
              IN /\ history' = IF Len(full) > HistoryCapacity THEN Tail(full) ELSE full
                 /\ historyIndex' = Len(history') - 1
                 /\ history'[historyIndex' + 1] = graphData'
                 /\ graphData' # graphData
                 /\ SelectedNodeValues' = AddedNodes
                 /\ Len(selectedNodes') = Len(clipboardNodes)
      /\ (op'.name = "paste" /\ Len(clipboardNodes) = 0)
           => /\ UNCHANGED << graphData, history, historyIndex, selectedNodes,
                              selectedLinks, clipboardNodes >>
              /\ SelectedNodeValues' = SelectedNodeValues ]_vars

\* a non-empty clipboard was pasted: the snapshot under the cursor is the
\* last one and equals the live graph, which has as many nodes more than the
\* snapshot before it as the clipboard holds, and as many nodes are selected
C17_Witness ==
  /\ op.name = "paste"
  /\ Len(clipboardNodes) > 0
  /\ Len(selectedNodes) = Len(clipboardNodes)
  /\ historyIndex = Len(history) - 1
  /\ historyIndex > 0
  /\ history[historyIndex + 1] = graphData
  /\ Len(graphData.nodes) = Len(history[historyIndex].nodes) + Len(clipboardNodes)

----------------------------------------------------------------------------
(* Import *)

\* the outcomes of a file load that give no document with both collections:
\* the text is empty, it is not JSON, or the parsed value has no nodes or no
\* links
RejectedOutcomes ==
  { out \in ImportOutcomes :
      out.kind # "parsed" \/ ~(HasNodes(out.doc) /\ HasLinks(out.doc)) }

\* Rejection, leaving aside the notification: a file load that gives no document with
\* both collections leaves the live graph, the history log, the cursor and
\* both selections as they were.
ImportRejectLeavesState ==
  [][ \A k \in 1..MaxEvents, out \in RejectedOutcomes :
        ImportLoad(k, out)
          => /\ UNCHANGED << graphData, history, historyIndex, selectedNodes,
                             selectedLinks >>
             /\ SelectedNodeValues' = SelectedNodeValues ]_vars

\* C18: an import whose document lacks a nodes collection or a links
\* collection, or whose text cannot be parsed, raises an error notification
\* and leaves the live graph, the history log, the cursor and both selections
\* as they were.
C18_ImportRejectsInvalid ==
  [][ \A k \in 1..MaxEvents, out \in RejectedOutcomes :
        ImportLoad(k, out)
          => /\ op'.alert # ""
             /\ UNCHANGED << graphData, history, historyIndex, selectedNodes,
                             selectedLinks >>
             /\ SelectedNodeValues' = SelectedNodeValues ]_vars

\* the outcomes of a file load that handleImport accepts
AcceptedOutcomes == ImportOutcomes \ RejectedOutcomes

\* Acceptance, leaving aside what undo restores: an accepted import makes the imported document the
\* live graph and the last snapshot of the history log, with the cursor on
\* it.
ImportReplacesAndRecords ==
  [][ \A k \in 1..MaxEvents, out \in AcceptedOutcomes :
        ImportLoad(k, out)
          => /\ graphData' = out.doc
             /\ historyIndex' = Len(history') - 1
             /\ history'[historyIndex' + 1] = out.doc ]_vars

\* C19: an accepted import makes the imported document the live graph and
\* appends exactly one snapshot, equal to it, after the snapshot under the
\* cursor, so that one undo right after it restores the graph that was live
\* before the import.
C19_ImportReplacesAndRecords ==
  [][ \A k \in 1..MaxEvents, out \in AcceptedOutcomes :
        ImportLoad(k, out)
          => LET full == SubSeq(history, 1, historyIndex + 1) \o << out.doc >>
             IN /\ graphData' = out.doc
                /\ history' = IF Len(full) > HistoryCapacity THEN Tail(full) ELSE full
                /\ historyIndex' = Len(history') - 1
                /\ historyIndex' > 0
                /\ handleUndo(Cur)'.graphData = graphData ]_vars

----------------------------------------------------------------------------
(* Layout rebuild *)

\* a step whose render ran the main simulation effect: one of its
\* dependencies (node count, link count, grouping) changed
RebuildStep ==
  /\ ~crashed'
  /\ \/ Len(graphData'.nodes) # Len(graphData.nodes)
     \/ Len(graphData'.links) # Len(graphData.links)
     \/ grouping' # grouping

\* where the simulation holds a node, its velocity and its pin: a pinned node
\* is held at its pin
Kinematics(n) ==
  << IF n.fx # Undef THEN n.fx ELSE n.x, IF n.fy # Undef THEN n.fy ELSE n.y,
     n.vx, n.vy, n.fx, n.fy >>

\* Rebuild, for the ids that one entry of the arena carries: on a rebuild, an
\* entry whose id was the id of exactly one entry of the arena before keeps
\* that entry's position, velocity and pin, and an entry whose id was not in
\* the arena is initialised from the graph's node.
RebuildKeepsUniqueIds ==
  [][ RebuildStep
      => \A i \in 1..Len(nodesRef') :
           LET id == nodesRef'[i].id
               before == { k \in 1..Len(nodesRef) : nodesRef[k].id = id }
           IN /\ nodesRef'[i].id = graphData'.nodes[i].id
              /\ Cardinality(before) = 1
                   => \A k \in before : Kinematics(nodesRef'[i]) = Kinematics(nodesRef[k])
              /\ before = { }
                   => nodesRef'[i] = initializeNode(graphData'.nodes[i], i - 1) ]_vars

\* C20: on every rebuild of the arena, every entry of the new arena whose id
\* was in the arena before keeps the position, velocity and pin that the
\* entries with that id had before the rebuild, and only entries whose id was
\* not in the arena are initialised from the graph's node.
C20_RebuildIdentityContinuity ==
  [][ RebuildStep
      => \A i \in 1..Len(nodesRef') :
           LET id == nodesRef'[i].id
               before == { k \in 1..Len(nodesRef) : nodesRef[k].id = id }
           IN /\ nodesRef'[i].id = graphData'.nodes[i].id
              /\ \A k \in before : Kinematics(nodesRef'[i]) = Kinematics(nodesRef[k])
              /\ before = { }
                   => nodesRef'[i] = initializeNode(graphData'.nodes[i], i - 1) ]_vars

----------------------------------------------------------------------------
(* Cosmetic edits *)

\* SpecCosmetic: selection and the Sidebar's editors, undo and redo, and the
\* import of a file in which two nodes have the same id
MaxCosmeticEvents == 5

LimCosmetic == [ events |-> MaxCosmeticEvents, pendingImports |-> 1, clock |-> 0 ]

NextCosmetic ==
  \/ Undo
  \/ Redo
  \/ \E i \in 1..MaxArena : DragStart(i, FALSE, FALSE)
  \/ NodeClick
  \/ \E i \in 1..MaxArena : LinkClick(i, FALSE)
  \/ \E f \in NodeFieldInputs : UpdateNodesField(f[1], f[2])
  \/ AddPropertyToAll
  \/ \E k \in 1..MaxArena : UpdateSingleProperty(k, "renamed_prop")
  \/ \E k \in 1..MaxArena : DeleteSingleProperty(k)
  \/ \E f \in LinkFieldInputs : UpdateLinksField(f[1], f[2])
  \/ ImportStart
  \/ ImportLoad(1, [ kind |-> "parsed", doc |-> DocDuplicateIds ])

SpecCosmetic == InitWith(LimCosmetic) /\ [][NextCosmetic]_vars

\* the fields of an arena entry that the simulation and the gestures write
Physical(n) == << n.x, n.y, n.vx, n.vy, n.fx, n.fy >>

\* the fields of a node that the Sidebar's editors write
Cosmetic(n) == << n.label, n.type, n.color, n.properties >>

\* a cosmetic node update leaves the arena's entries, their order, their ids
\* and their position, velocity and pin as they were, and does not run the
\* main simulation effect
CosmeticKeepsLayout ==
  [][ op'.name = "updateNodes"
      => /\ Len(nodesRef') = Len(nodesRef)
         /\ \A k \in 1..Len(nodesRef) :
              /\ nodesRef'[k].id = nodesRef[k].id
              /\ Physical(nodesRef'[k]) = Physical(nodesRef[k])
         /\ UNCHANGED << linksRef, canvasEnv >> ]_vars

\* C21: a cosmetic node update (label, kind, color, properties) does not
\* rebuild the layout: the arena keeps its entries and every entry keeps its
\* position, velocity and pin; after it, every arena entry with the id of an
\* updated node holds that node's new label, kind, color and properties.
C21_CosmeticUpdateInPlace ==
  [][ op'.name = "updateNodes"
      => /\ Len(nodesRef') = Len(nodesRef)
         /\ \A k \in 1..Len(nodesRef) :
              /\ nodesRef'[k].id = nodesRef[k].id
              /\ Physical(nodesRef'[k]) = Physical(nodesRef[k])
         /\ UNCHANGED << linksRef, canvasEnv >>
         /\ \A k \in 1..Len(nodesRef'), u \in Range(SelectedNodeValues') :
              (u.id = nodesRef'[k].id /\ u.id \in Ids(graphData'.nodes))
                => Cosmetic(nodesRef'[k]) = Cosmetic(u) ]_vars

----------------------------------------------------------------------------
(* Layout *)

\* SpecLayout: the simulation's ticks, drags (also onto the origin), palette
\* drops, the grouping buttons, undo and redo
MaxLayoutEvents == 5

LimLayout == [ events |-> MaxLayoutEvents, pendingImports |-> 0, clock |-> 0 ]

\* pointer positions during a drag, the origin among them
OriginDragPoints == { << 50, 60 >>, << 0, 0 >> }

NextLayout ==
  \/ Undo
  \/ Redo
  \/ \E i \in 1..MaxArena : DragStart(i, FALSE, FALSE)
  \/ \E pt \in OriginDragPoints : Dragged(pt)
  \/ DragEnd
  \/ NodeClick
  \/ \E type \in DropTypes, pt \in DropPoints : Drop(type, pt, 0)
  \/ \E mode \in GroupingModes : SetGrouping(mode)
  \/ \E w \in TickVelocities : Tick(w)

SpecLayout == InitWith(LimLayout) /\ [][NextLayout]_vars

----------------------------------------------------------------------------
(* Drag protocol *)

PinOf(n) == << n.fx, n.fy >>

Pinned(n) == n.fx # Undef /\ n.fy # Undef

UniqueArenaIds(arena) ==
  \A i, j \in 1..Len(arena) : arena[i].id = arena[j].id => i = j

\* what the three drag handlers do to the pin of the node under the pointer:
\* drag start pins it at its position, a move pins it at the pointer, and the
\* release (with or without a click) leaves every pin alone
DragWritesPin ==
  /\ op'.name = "dragStart"
       => /\ gesture'.phase = "down"
          /\ PinOf(nodesRef'[gesture'.node])
               = << nodesRef[gesture'.node].x, nodesRef[gesture'.node].y >>
  /\ op'.name = "dragged"
       => PinOf(nodesRef'[gesture.node]) \in OriginDragPoints \cup DragPoints
  /\ op'.name \in { "dragEnd", "nodeClick", "linkCreate" } /\ ~RebuildStep
       => \A k \in 1..Len(nodesRef) : PinOf(nodesRef'[k]) = PinOf(nodesRef[k])

\* the arena entries before and after a step that hold the same node, the
\* node under the pointer of a drag start or move left out
SameNode(k, j) ==
  /\ ~(op'.name = "dragStart" /\ k = gesture'.node)
  /\ ~(op'.name = "dragged" /\ k = gesture.node)
  /\ IF RebuildStep THEN nodesRef'[j].id = nodesRef[k].id ELSE j = k

\* The drag protocol, for arenas in which no two entries share an id: the
\* handlers write the pin as above, and a pinned node keeps its pin on every
\* step, rebuilds and ticks included, while its id remains in the arena.
PinPersistsUniqueIds ==
  [][ /\ DragWritesPin
      /\ (UniqueArenaIds(nodesRef) /\ ~crashed')
           => \A k \in 1..Len(nodesRef), j \in 1..Len(nodesRef') :
                (Pinned(nodesRef[k]) /\ SameNode(k, j))
                  => PinOf(nodesRef'[j]) = PinOf(nodesRef[k]) ]_vars

\* C22: drag start sets the pin of the node to its current position, a drag
\* move sets it to the pointer position and drag end does not clear it; a
\* pinned node keeps its pin in every later step, across drag end, ticks and
\* rebuilds of the arena, for as long as it remains in the arena.
C22_DragPinsForGood ==
  [][ /\ DragWritesPin
      /\ ~crashed'
           => \A k \in 1..Len(nodesRef), j \in 1..Len(nodesRef') :
                (Pinned(nodesRef[k]) /\ SameNode(k, j))
                  => PinOf(nodesRef'[j]) = PinOf(nodesRef[k]) ]_vars

----------------------------------------------------------------------------
(* Grid correction *)

\* the grid lines within the reach of the explored coordinates
GridLines == { GridSize * i : i \in (0 - 4)..4 }

Abs(v) == IF v < 0 THEN 0 - v ELSE v

\* the velocity that the tick handler adds to node d, in tenths of a pixel
\* per tick
Correction(d, mode) ==
  << tickHandler(d, mode).vx - d.vx, tickHandler(d, mode).vy - d.vy >>

\* strength * 0.1 * (nearest multiple of the grid size - coordinate) on both
\* axes, in tenths of a pixel per tick
IsGridPull(dv, d) ==
  \E gx, gy \in GridLines :
    /\ 2 * Abs(gx - d.x) <= GridSize
    /\ 2 * Abs(gy - d.y) <= GridSize
    /\ dv = << Strength * (gx - d.x), Strength * (gy - d.y) >>

\* C23: on a tick the handler corrects a node only in grid mode and only if
\* the node is unpinned; a correction adds strength * 0.1 * (nearest multiple
\* of the grid size - coordinate) to the velocity on each axis and writes
\* nothing else; in grid mode every unpinned node with no coordinate on an
\* axis of the canvas is corrected; a node on a grid intersection receives
\* zero correction.
C23_GridCorrection ==
  \A k \in 1..Len(nodesRef), w \in TickVelocities :
    LET d == d3Step(nodesRef[k], w)
        dv == Correction(d, grouping)
    IN /\ dv # << 0, 0 >> => grouping = "grid" /\ ~Pinned(d)
       /\ dv = << 0, 0 >> \/ IsGridPull(dv, d)
       /\ tickHandler(d, grouping) = [ d EXCEPT !.vx = d.vx + dv[1], !.vy = d.vy + dv[2] ]
       /\ (grouping = "grid" /\ ~Pinned(d) /\ d.x # 0 /\ d.y # 0) => IsGridPull(dv, d)
       /\ (d.x \in GridLines /\ d.y \in GridLines) => dv = << 0, 0 >>

\* after a tick in grid mode: a free node on a grid intersection kept the
\* velocity the forces gave it, a free node off the grid was pulled, and a
\* pinned node off the grid was not
C23_Witness ==
  /\ op.name = "tick"
  /\ grouping = "grid"
  /\ \E k \in 1..Len(nodesRef) :
       /\ ~Pinned(nodesRef[k])
       /\ nodesRef[k].x \in GridLines \ { 0 } /\ nodesRef[k].y \in GridLines \ { 0 }
       /\ << nodesRef[k].vx, nodesRef[k].vy >> \in TickVelocities
  /\ \E k \in 1..Len(nodesRef) :
       /\ ~Pinned(nodesRef[k])
       /\ << nodesRef[k].vx, nodesRef[k].vy >> \notin TickVelocities
  /\ \E k \in 1..Len(nodesRef) :
       /\ Pinned(nodesRef[k])
       /\ nodesRef[k].x \notin GridLines
       /\ << nodesRef[k].vx, nodesRef[k].vy >> = << 0, 0 >>

----------------------------------------------------------------------------
(* Single writer per field class *)

GestureOps == { "dragStart", "dragged", "dragEnd", "nodeClick" }

Free(n) == << n.x, n.y, n.vx, n.vy >>

\* C28: a tick of the simulation never writes the pin of a node, and drag
\* start, drag move, drag end and the click never write the position or the
\* velocity of a node.
C28_SingleWriterPerField ==
  [][ /\ op'.name = "tick"
        => /\ Len(nodesRef') = Len(nodesRef)
           /\ \A k \in 1..Len(nodesRef) : PinOf(nodesRef'[k]) = PinOf(nodesRef[k])
      /\ op'.name \in GestureOps
        => /\ Len(nodesRef') = Len(nodesRef)
           /\ \A k \in 1..Len(nodesRef) : Free(nodesRef'[k]) = Free(nodesRef[k]) ]_vars

\* a drag move after a tick: the ticked free nodes have a velocity, and the
\* node under the pointer is pinned at the pointer, away from its position
C28_Witness ==
  /\ op.name = "dragged"
  /\ gesture.phase = "moved"
  /\ Pinned(nodesRef[gesture.node])
  /\ PinOf(nodesRef[gesture.node]) # << nodesRef[gesture.node].x, nodesRef[gesture.node].y >>
  /\ \E k \in 1..Len(nodesRef) :
       ~Pinned(nodesRef[k]) /\ << nodesRef[k].vx, nodesRef[k].vy >> # << 0, 0 >>

----------------------------------------------------------------------------
(* Schema generation *)

\* SpecGenerate: the generation modal and its requests, with edits of the
\* graph, selection, copy, undo and redo around them
MaxGenerateEvents == 6

LimGenerate == [ events |-> MaxGenerateEvents, pendingImports |-> 0, clock |-> 0 ]

NextGenerate ==
  \/ Undo
  \/ Redo
  \/ DragStart(1, FALSE, FALSE)
  \/ NodeClick
  \/ KeyCopy
  \/ \E type \in DropTypes, pt \in DropPoints : Drop(type, pt, 0)
  \/ OpenAIModal
  \/ CloseAIModal
  \/ \E mode \in { "merge", "replace" } : GenerateStart(mode)
  \/ \E out \in GenerateOutcomes : GenerateSettle(out)

SpecGenerate == InitWith(LimGenerate) /\ [][NextGenerate]_vars

\* C24: at most one generation request is in flight at any time, and the
\* loading flag is set exactly while a request is in flight, from its start
\* until it settles.
C24_OneGenerationInFlight ==
  /\ Len(genPending) <= 1
  /\ isAILoading <=> Len(genPending) = 1

\* a request is in flight while the modal is closed and the graph has been
\* edited since the request started
C24_Witness ==
  /\ Len(genPending) = 1
  /\ isAILoading
  /\ ~isAIModalOpen
  /\ graphData # genPending[1].env.graphData

\* the responses with which a generation fails
FailedResponses == { r \in ServiceResponses : r.kind # "json" }

\* C25: a generation that fails (no credential, rejected call, response
\* without text, text without valid JSON) leaves the live graph, the history
\* log, the cursor, both selections and the clipboard as they were, and the
\* failure is reported.
C25_FailedGenerationChangesNothing ==
  [][ \A r \in FailedResponses :
        GenerateSettle(getSchemaFromAI(r))
          => /\ UNCHANGED << graphData, history, historyIndex, selectedNodes,
                             selectedLinks, clipboardNodes >>
             /\ op'.alert # "" ]_vars

\* a failure has been reported for a request made after the graph was
\* edited, with a selection and a clipboard in place
C25_Witness ==
  /\ op.name = "generate"
  /\ op.alert # ""
  /\ ~isAILoading
  /\ Len(history) > 1
  /\ Len(selectedNodes) > 0

----------------------------------------------------------------------------
(* Order of the structural operations *)

\* Every structural step either leaves the live graph, the log and the
\* cursor alone, or leaves the cursor on the last snapshot, that snapshot
\* being the live graph, with a log that has grown by at most one snapshot.
RecordsOneSnapshot ==
  [][ op'.name \in StructuralOps
      => \/ UNCHANGED << graphData, history, historyIndex >>
         \/ /\ Len(history') <= Len(history) + 1
            /\ historyIndex' = Len(history') - 1
            /\ history'[Len(history')] = graphData' ]_vars

\* C26: structural operations are applied in input order, each to the log
\* and cursor that the operations before it left: a palette drop, link
\* create, delete, paste, import or generation either changes nothing in the
\* log, or appends exactly one snapshot after the current cursor, which is
\* the live graph after the action.
C26_StructuralInOrderOneSnapshot ==
  [][ op'.name \in StructuralOps
      => \/ UNCHANGED << graphData, history, historyIndex >>
         \/ /\ history' = recordHistory(Cur, graphData').history
            /\ historyIndex' = recordHistory(Cur, graphData').historyIndex
            /\ history'[Len(history')] = graphData' ]_vars

----------------------------------------------------------------------------
(* Endpoints in the store *)

\* every link of graph g holds its endpoints as ids
PlainEndpoints(g) ==
  HasLinks(g) => \A i \in 1..Len(g.links) : ~g.links[i].resolved

\* C27: in every reachable state every link of the live graph and of every
\* snapshot of the history log holds its source and target as plain node
\* ids, never as the node objects of the simulation, also after cosmetic
\* edits of a selected link.
C27_StoreHoldsPlainIds ==
  /\ PlainEndpoints(graphData)
  /\ \A i \in 1..Len(history) : PlainEndpoints(history[i])

----------------------------------------------------------------------------
(* The modifier-click gesture *)

\* the i-th node of the arena is in the node selection
Member(i) == nodesRef[i].id \in SelIds(selectedNodes)

\* the i-th node of the arena is in the node selection after the click
\* handler has run for it with the modifier held
MemberAfterClick(i) ==
  nodesRef[i].id \in SelIds(handleNodeSelect(Cur, LiveEntry(i), TRUE).selectedNodes)

\* a press on the i-th node with the modifier held and Shift not held
ModifierPress(i) ==
  /\ op'.name = "dragStart"
  /\ gesture'.phase = "down"
  /\ gesture'.node = i
  /\ gesture'.isMulti
  /\ ~gesture'.isLinkMode

\* What the modifier-click gesture does: the press adds a node that was not
\* selected and leaves a selected one alone, and the click of the release
\* then removes the node, so the gesture always ends with the node
\* unselected.
ModifierClickEndsUnselected ==
  [][ \A i \in 1..Len(nodesRef) :
        ModifierPress(i) => /\ Member(i)'
                            /\ ~MemberAfterClick(i)' ]_vars

\* C29: one modifier-click gesture on a node (the press runs drag start, the
\* release runs the click) changes the membership of the node in the
\* selection exactly once: a node that was selected ends unselected, and a
\* node that was not selected ends selected.
C29_ModifierClickTogglesOnce ==
  [][ \A i \in 1..Len(nodesRef) :
        ModifierPress(i) => MemberAfterClick(i)' # Member(i) ]_vars

----------------------------------------------------------------------------
(* Link creation by Shift+click *)

\* SpecLinkCreate: presses with and without Ctrl and Shift on the three
\* initial nodes, drag moves, releases with and without a click, undo
MaxLinkCreateEvents == 8

LimLinkCreate == [ events |-> MaxLinkCreateEvents, pendingImports |-> 0, clock |-> 0 ]

NextLinkCreate ==
  \/ \E i \in 1..3, m \in BOOLEAN, l \in BOOLEAN : DragStart(i, m, l)
  \/ \E pt \in DragPoints : Dragged(pt)
  \/ DragEnd
  \/ NodeClick
  \/ Undo

SpecLinkCreate == InitWith(LimLinkCreate) /\ [][NextLinkCreate]_vars

\* the release, without a move, of a press made with Shift held
ShiftClick ==
  /\ gesture.phase = "down"
  /\ gesture.isLinkMode
  /\ op'.name \in { "linkCreate", "nodeClick" }

\* C30: a Shift+click on node T while exactly one node S is selected and S is
\* not T adds exactly one link to the live graph, from S to T, and leaves the
\* node selection as it was; with no node, several nodes or T itself selected
\* the Shift+click adds no link; no link from a node to itself is created.
C30_ShiftClickCreatesOneLink ==
  [][ ShiftClick
      => LET T == nodesRef[gesture.node].id
             sel == SelectedNodeValues
             n == Len(graphData.links)
         IN IF Len(sel) = 1 /\ sel[1].id # T
            THEN /\ op'.name = "linkCreate"
                 /\ Len(graphData'.links) = n + 1
                 /\ \A k \in 1..n : graphData'.links[k].id = graphData.links[k].id
                 /\ graphData'.links[n + 1].source = sel[1].id
                 /\ graphData'.links[n + 1].target = T
                 /\ graphData'.links[n + 1].source # graphData'.links[n + 1].target
                 /\ SelectedNodeValues' = sel
            ELSE /\ op'.name = "nodeClick"
                 /\ graphData'.links = graphData.links ]_vars

\* a Shift+click has created the fourth link, from the one selected node to
\* another node, and that node is still the selection
C30_Witness ==
  /\ op.name = "linkCreate"
  /\ Len(selectedNodes) = 1
  /\ Len(graphData.links) = 4
  /\ graphData.links[4].source = SelectedNodeValues[1].id
  /\ graphData.links[4].target # SelectedNodeValues[1].id

----------------------------------------------------------------------------
(* Delete and Backspace *)

\* SpecDelete: selection of nodes and links, copy and paste, the Delete key
\* and the Sidebar's delete buttons, undo
MaxDeleteEvents == 6

LimDelete == [ events |-> MaxDeleteEvents, pendingImports |-> 0, clock |-> 0 ]

NextDelete ==
  \/ Undo
  \/ \E i \in 1..2 : DragStart(i, FALSE, FALSE)
  \/ NodeClick
  \/ \E i \in 1..2 : LinkClick(i, FALSE)
  \/ KeyCopy
  \/ KeyPaste
  \/ KeyDelete
  \/ SidebarDeleteNodes
  \/ SidebarDeleteLinks

SpecDelete == InitWith(LimDelete) /\ [][NextDelete]_vars

\* the Delete key with one kind of thing selected: nothing that was selected
\* remains in the live graph; and after every Delete key both selections are
\* empty
KeyDeleteOneKind ==
  [][ op'.name = "keyDelete"
      => /\ selectedNodes' = << >>
         /\ selectedLinks' = << >>
         /\ Len(selectedLinks) = 0
              => SelIds(selectedNodes) \cap Ids(graphData'.nodes) = { }
         /\ Len(selectedNodes) = 0
              => Ids(selectedLinks) \cap Ids(graphData'.links) = { } ]_vars

\* C31: after a Delete or Backspace keypress no node and no link that was
\* selected when the key was pressed remains in the live graph, and both
\* selections are empty, whatever was selected.
C31_KeyDeleteRemovesSelection ==
  [][ op'.name = "keyDelete"
      => /\ selectedNodes' = << >>
         /\ selectedLinks' = << >>
         /\ SelIds(selectedNodes) \cap Ids(graphData'.nodes) = { }
         /\ Ids(selectedLinks) \cap Ids(graphData'.links) = { } ]_vars

----------------------------------------------------------------------------
(* Cosmetic link edits in the arena *)

\* C32: after a cosmetic update of a link, made without a rebuild, the arena
\* link with the same id carries the label and kind that the live graph
\* holds for it, as the arena node does after a cosmetic node update.
C32_CosmeticLinkUpdateInArena ==
  [][ (op'.name = "updateLinks" /\ ~RebuildStep)
      => /\ Len(linksRef') = Len(graphData'.links)
         /\ \A k \in 1..Len(linksRef') :
              /\ linksRef'[k].id = graphData'.links[k].id
              /\ linksRef'[k].label = graphData'.links[k].label
              /\ linksRef'[k].type = graphData'.links[k].type ]_vars

\* What a cosmetic link update does to the arena: no rebuild, and the
\* arena's links are left exactly as they were.
CosmeticLinkUpdateSkipsArena ==
  [][ op'.name = "updateLinks"
      => /\ ~RebuildStep
         /\ UNCHANGED << linksRef, canvasEnv >>
         /\ Len(nodesRef') = Len(nodesRef)
         /\ \A k \in 1..Len(nodesRef) : Physical(nodesRef'[k]) = Physical(nodesRef[k]) ]_vars

----------------------------------------------------------------------------
(* The arena follows the live graph *)

\* SpecRebuild: imports of a graph of the size of the live one and of a
\* smaller one, drops, undo, redo and the grouping buttons
MaxRebuildEvents == 4

LimRebuild == [ events |-> MaxRebuildEvents, pendingImports |-> 1, clock |-> 0 ]

NextRebuild ==
  \/ Undo
  \/ Redo
  \/ \E type \in DropTypes, pt \in DropPoints : Drop(type, pt, 0)
  \/ ImportStart
  \/ \E d \in { DocSameSize, DocSmall } : ImportLoad(1, [ kind |-> "parsed", doc |-> d ])
  \/ \E i \in 1..3 : DragStart(i, FALSE, FALSE)
  \/ NodeClick
  \/ \E mode \in GroupingModes : SetGrouping(mode)

SpecRebuild == InitWith(LimRebuild) /\ [][NextRebuild]_vars

\* the identity and the endpoints of the links of a sequence
LinkKeys(links) ==
  [ k \in 1..Len(links) |-> << links[k].id, links[k].source, links[k].target >> ]

\* the arena holds the nodes and the links of graph g
ArenaMatches(arena, arenaLinks, g) ==
  /\ Ids(arena) = Ids(g.nodes)
  /\ LinkKeys(arenaLinks) = LinkKeys(g.links)

\* What the main simulation effect does: whenever the number of nodes, the
\* number of links or the grouping changes, the arena is rebuilt from the
\* live graph.
RebuildOnCountChange ==
  [][ RebuildStep => ArenaMatches(nodesRef', linksRef', graphData') ]_vars

\* C33: after every operation that changes the set of node ids or the links
\* of the live graph, also one that leaves the number of nodes and of links
\* the same, the arena holds the node ids and the links of the live graph.
C33_ArenaFollowsLiveGraph ==
  [][ (/\ ~crashed'
       /\ \/ Ids(graphData'.nodes) # Ids(graphData.nodes)
          \/ LinkKeys(graphData'.links) # LinkKeys(graphData.links))
      => ArenaMatches(nodesRef', linksRef', graphData') ]_vars

----------------------------------------------------------------------------
(* Link creation after cosmetic edits *)

\* SpecLinkEdit: selection, a rename in the Sidebar, Shift+click, drops and
\* undo
MaxLinkEditEvents == 5

LimLinkEdit == [ events |-> MaxLinkEditEvents, pendingImports |-> 0, clock |-> 0 ]

NextLinkEdit ==
  \/ Undo
  \/ \E i \in 1..2, l \in BOOLEAN : DragStart(i, FALSE, l)
  \/ NodeClick
  \/ UpdateNodesField("label", "Renamed")
  \/ \E type \in DropTypes, pt \in DropPoints : Drop(type, pt, 0)

SpecLinkEdit == InitWith(LimLinkEdit) /\ [][NextLinkEdit]_vars

\* What a link creation does: it appends one link to the graph that was live
\* when the main simulation effect last ran, and records it in the log and
\* at the cursor of that render.
LinkCreateFromCanvasRender ==
  [][ op'.name = "linkCreate"
      => LET n == Len(canvasEnv.graphData.links)
         IN /\ graphData'.nodes = canvasEnv.graphData.nodes
            /\ Len(graphData'.links) = n + 1
            /\ SubSeq(graphData'.links, 1, n) = canvasEnv.graphData.links
            /\ history' = recordHistory(canvasEnv, graphData').history
            /\ historyIndex' = recordHistory(canvasEnv, graphData').historyIndex ]_vars

\* C34: a link creation yields the live graph as it was right before the
\* gesture plus exactly one link: every node and every existing link,
\* cosmetic edits made since the last rebuild included, is unchanged, and the
\* new snapshot is appended after the snapshot that was current right before
\* the gesture.
C34_LinkCreateKeepsLiveGraph ==
  [][ op'.name = "linkCreate"
      => LET n == Len(graphData.links)
         IN /\ graphData'.nodes = graphData.nodes
            /\ Len(graphData'.links) = n + 1
            /\ SubSeq(graphData'.links, 1, n) = graphData.links
            /\ history' = recordHistory(Cur, graphData').history
            /\ historyIndex' = recordHistory(Cur, graphData').historyIndex ]_vars

----------------------------------------------------------------------------
(* Deferred results *)

\* a step that integrates a file load or a generation response
Integration ==
  /\ op'.name \in { "import", "generate" }
  /\ << graphData', history', historyIndex' >> # << graphData, history, historyIndex >>

\* the renders in which the pending requests were made
PendingEnvs ==
  { importPending[k] : k \in 1..Len(importPending) }
    \cup { genPending[k].env : k \in 1..Len(genPending) }

\* What an integration does: the snapshot is appended to the log, after the
\* cursor, of the render in which the request was made.
IntegrationRecordsOnRequestRender ==
  [][ Integration
      => \E env \in PendingEnvs :
           /\ history' = recordHistory(env, graphData').history
           /\ historyIndex' = recordHistory(env, graphData').historyIndex ]_vars

\* C35: a file load or a generation response that is integrated after edits,
\* undos or redos made while it was pending is appended after the cursor as
\* it is at integration time: the snapshots at and before that cursor, those
\* recorded while it was pending included, stay in the log, and one undo
\* right after the integration returns the graph that was live right before.
C35_DeferredResultAppendsAtCursor ==
  [][ Integration
      => /\ history' = recordHistory(Cur, graphData').history
         /\ historyIndex' = recordHistory(Cur, graphData').historyIndex
         /\ handleUndo(Cur)'.graphData = graphData ]_vars

----------------------------------------------------------------------------
(* Selection within the live graph *)

\* C36: in every reachable state every selected node is a node of the live
\* graph and every selected link is a link of the live graph, by id.
C36_SelectionWithinLiveGraph ==
  (HasNodes(graphData) /\ HasLinks(graphData))
    => /\ SelIds(selectedNodes) \subseteq Ids(graphData.nodes)
       /\ Ids(selectedLinks) \subseteq Ids(graphData.links)

\* The operations that clear what they remove: after a delete, an undo or a
\* redo both selections are within the live graph.
ClearingOpsKeepSelectionWithin ==
  [][ op'.name \in { "deleteNodes", "deleteLinks", "undo", "redo" }
        /\ << graphData', historyIndex' >> # << graphData, historyIndex >>
      => C36_SelectionWithinLiveGraph' ]_vars

----------------------------------------------------------------------------
(* Undo and redo after cosmetic edits *)

\* Undo followed at once by redo puts the cursor back and makes the snapshot
\* under it the live graph.
UndoRedoReturnsSnapshot ==
  (~crashed /\ historyIndex > 0)
    => LET r == handleRedo(handleUndo(Cur))
       IN /\ r.historyIndex = historyIndex
          /\ r.graphData = history[historyIndex + 1]

\* C37: when the live graph differs from the snapshot under the cursor,
\* because of cosmetic edits made after the last record, undo followed at
\* once by redo still restores the live graph as it was before the undo.
C37_UndoRedoKeepsCosmeticEdits ==
  (~crashed /\ historyIndex > 0 /\ graphData # history[historyIndex + 1])
    => handleRedo(handleUndo(Cur)).graphData = graphData

----------------------------------------------------------------------------
(* Shape of the stored graphs *)

\* graph g has a nodes collection and a links collection
WellShaped(g) == HasNodes(g) /\ HasLinks(g)

\* An import and a generation in merge mode always leave a live graph with
\* both collections.
ImportAndMergeWellShaped ==
  [][ \/ op'.name = "import"
      \/ (op'.name = "generate" /\ Len(genPending) > 0 /\ Head(genPending).mode = "merge")
      => WellShaped(graphData') ]_vars

\* C38: in every reachable state the live graph and every snapshot of the
\* history log have a nodes collection and a links collection, also after a
\* generation result of any parsed shape was integrated in replace or merge
\* mode.
C38_StoredGraphsWellShaped ==
  /\ WellShaped(graphData)
  /\ \A i \in 1..Len(history) : WellShaped(history[i])

----------------------------------------------------------------------------
(* The loading flag is cleared *)

\* SpecGenerateLive: the modal and generation requests without a bound on
\* the number of events; every service call settles, with a failure or with
\* a small document (the awaited promise resolves or rejects)
LimUnbounded == [ events |-> 0 - 1, pendingImports |-> 0, clock |-> 0 ]

LiveOutcomes ==
  { getSchemaFromAI(r) : r \in FailedResponses \cup { [ kind |-> "json", doc |-> DocSmall ] } }

SettleSome == \E out \in LiveOutcomes : GenerateSettle(out)

NextGenerateLive ==
  \/ OpenAIModal
  \/ CloseAIModal
  \/ \E mode \in { "merge", "replace" } : GenerateStart(mode)
  \/ SettleSome

SpecGenerateLive ==
  InitWith(LimUnbounded) /\ [][NextGenerateLive]_vars /\ WF_vars(SettleSome)

\* C39: whenever the loading flag is set, a request is pending, and the flag
\* is eventually cleared, the request having settled with a result or with a
\* failure; generation can then be invoked again.
C39_LoadingFlagCleared ==
  /\ [](isAILoading => Len(genPending) > 0)
  /\ isAILoading ~> (~isAILoading /\ Len(genPending) = 0)

\* a request settled with a failure, the flag is cleared and the modal is
\* still open, so that Generate can be pressed again
C39_Witness ==
  /\ op.name = "generate"
  /\ op.alert # ""
  /\ ~isAILoading
  /\ isAIModalOpen
  /\ Len(history) > 2

----------------------------------------------------------------------------
(* The cursor stays within the log *)

\* C40: in every reachable state the history log is not empty and the cursor
\* is at least 0 and at most the index of the last snapshot, after every
\* interleaving of records, undos and redos, records that evict the oldest
\* snapshot included.
C40_CursorWithinLog ==
  /\ Len(history) >= 1
  /\ 0 <= historyIndex
  /\ historyIndex <= Len(history) - 1

\* the log is full, its oldest snapshot was evicted, and undo has moved the
\* cursor off the last snapshot
C40_Witness ==
  /\ Len(history) = HistoryCapacity
  /\ history[1] # INITIAL_DATA
  /\ op.name = "undo"
  /\ historyIndex < Len(history) - 1

====
